---- MODULE Spec2Model ----
(***************************************************************************)
(* Model of the "just one minute" request handlers:                        *)
(*   - the Netlify summarize function   (src/netlify/functions/summarize.js,*)
(*     the handler that starts at line 468),                               *)
(*   - the Netlify crypto-explain function                                 *)
(*     (src/netlify/functions/crypto-explain.js),                          *)
(*   - the Express POST /summarize route (src/server.ts),                  *)
(* together with the in-memory analytics store of analytics.js.            *)
(*                                                                         *)
(* One behaviour is one HTTP request.  The request, the environment and    *)
(* the handler variant are drawn in Init; every answer of an upstream (the *)
(* social platform API, the LLM API, the spreadsheet API) is drawn by the  *)
(* action that awaits it.  An action is the code between two awaits.       *)
(*                                                                         *)
(* Texts are sequences of tokens.  A token stands for a piece of text that *)
(* the code can look for (a keyword such as "fetch", a status URL, a       *)
(* blank); s.includes(k) is "k is one of the tokens of s", concatenation   *)
(* is \o, the empty string is << >>.  JSON values are records tagged with  *)
(* their JavaScript type.                                                  *)
(***************************************************************************)
EXTENDS Integers, Sequences, FiniteSets, TLC

\* ------------------------------------------------------------------ bounds
\* largest number of status URLs pasted into rawText
MaxUrls == 4
\* largest number of messages the conversation search returns
MaxTweets == 2

\* ------------------------------------------------------- program constants
\* makeApiCallWithRetry = async (retries = 2)
RetriesSummarize == 2
RetriesCrypto == 2
\* makeApiCallWithRetry = async (retries = 3)
RetriesServer == 3
\* urls.slice(0, 2) and urls.slice(0, 3)
UrlLimitSummarize == 2
UrlLimitServer == 3

Variants == {"summarize", "crypto", "server", "track"}

\* ------------------------------------------------------------ JSON values
Undef == [t |-> "undefined"]
Str(s) == [t |-> "string", s |-> s]
Num(n) == [t |-> "number", n |-> n]

\* JavaScript truthiness of a value
Truthy(v) ==
  CASE v.t = "undefined" -> FALSE
    [] v.t = "string" -> Len(v.s) > 0
    [] v.t = "number" -> v.n # 0

\* ------------------------------------------------------------------ texts
Blank == " "

RECURSIVE TrimLeft(_)
TrimLeft(s) ==
  IF s # << >> /\ Head(s) = Blank THEN TrimLeft(Tail(s)) ELSE s

RECURSIVE TrimRight(_)
TrimRight(s) ==
  IF s # << >> /\ s[Len(s)] = Blank THEN TrimRight(SubSeq(s, 1, Len(s) - 1)) ELSE s

\* String.prototype.trim
Trim(s) == TrimRight(TrimLeft(s))

\* String.prototype.includes, on tokens
Includes(s, k) == \E i \in 1..Len(s) : s[i] = k

\* the status URL with identifier i
StatusUrl(i) == "https://x.com/u/status/" \o ToString(i)
StatusUrls == {StatusUrl(i) : i \in 1..(MaxUrls + 1)}

\* IsStatusUrl with \w+ in place of \d+: any word after /status/ is accepted
IsStatusUrl_lax(tok) == tok \in StatusUrls \cup {"https://x.com/u/status/notanumber"}

\* the pattern https?:\/\/(?:twitter|x)\.com\/[^\/]+\/status\/\d+ that the
\* handlers, extractTwitterUrls and extractThreadId share: the tokens it matches
IsStatusUrl(tok) == tok \in StatusUrls

\* /https?:\/\/(?:twitter|x)\.com\/[^\/]+\/status\/\d+/.test(text)
MatchesStatusUrl(s) == \E i \in 1..Len(s) : IsStatusUrl(s[i])

\* text.match(twitterUrlRegex) || []
extractTwitterUrls(s) == SelectSeq(s, IsStatusUrl)

\* tokens that one of the global twitterIndicators (numbering, mention,
\* hashtag, thread emoji) matches, once per occurrence
GlobalIndicatorTokens == {"1/3", "@elon", "#ai", "[thread-emoji]"}
IsGlobalIndicator(tok) == tok \in GlobalIndicatorTokens

\* /Thread:/i and /THREAD/i have no g flag: match() yields at most one match
MatchesThreadColon(s) == Includes(s, "thread:")
MatchesThread(s) == Includes(s, "thread:") \/ Includes(s, "thread")

\* the score that twitterIndicators.forEach sums up
IndicatorScore(s) ==
  Len(SelectSeq(s, IsGlobalIndicator))
    + (IF MatchesThreadColon(s) THEN 1 ELSE 0)
    + (IF MatchesThread(s) THEN 1 ELSE 0)

\* detectTwitterContent with the threshold 3
detectTwitterContent_above3(s) == IndicatorScore(s) > 3

\* return score > 2
detectTwitterContent(s) == IndicatorScore(s) > 2

\* the first n elements of a sequence: Array.prototype.slice(0, n)
Slice(s, n) == SubSeq(s, 1, IF Len(s) < n THEN Len(s) ELSE n)

RECURSIVE JoinTexts(_)
\* concatenation of a sequence of texts
JoinTexts(ss) == IF ss = << >> THEN << >> ELSE Head(ss) \o JoinTexts(Tail(ss))

\* ------------------------------------------------------------- requests
\* values of threadUrl; each is the empty string or one token
ThreadUrlValues ==
  { Undef, Str(<< >>), Str(<<Blank>>),
    Str(<<"https://x.com/u/status/notanumber">>), Str(<<StatusUrl(1)>>) }

\* rawText that pastes the status URLs 1..k
TextWithUrls(k) == <<"see">> \o [i \in 1..k |-> StatusUrl(i)]

\* values of rawText
RawTextValues ==
  { Undef, Str(<< >>), Str(<<Blank>>), Str(<<"hello", "world">>),
    Str(<<"#ai", "@elon", "1/3", "hello">>), Str(TextWithUrls(1)) }

\* values of tone and length, as pairs
ToneLengthValues ==
  { <<Str(<<"simple">>), Str(<<"1 line">>)>>,
    <<Str(<<"pirate">>), Str(<<"1 line">>)>>,
    <<Str(<<"Simple">>), Str(<<"bullet list">>)>>,
    <<Undef, Undef>> }

\* values of term
TermValues ==
  { Undef, Str(<< >>), Str(<<Blank>>), Str(<<"defi">>), Num(0), Num(5) }

\* a request none of whose body fields is set
\* values of event.headers: absent, without a user-agent, with the
\* user-agent of a phone, with that of a desktop browser
HeaderValues == {"absent", "empty", "iPhone Safari", "Chrome"}

BareRequest(m, b) ==
  [method |-> m, body |-> b, threadUrl |-> Undef, rawText |-> Undef,
   tone |-> Undef, length |-> Undef, term |-> Undef, headers |-> "empty"]

SummarizeRequest(u, r, tl) ==
  [method |-> "POST", body |-> "json", threadUrl |-> u, rawText |-> r,
   tone |-> tl[1], length |-> tl[2], term |-> Undef, headers |-> "empty"]

\* requests to a summarize handler with a JSON object as body: every pair of
\* threadUrl and rawText with the tone "simple", a rawText with two or more
\* URLs and no threadUrl, and every tone and length with a rawText that has
\* no URL
SummarizeJsonRequests ==
  { SummarizeRequest(u, r, <<Str(<<"simple">>), Str(<<"1 line">>)>>) :
      u \in ThreadUrlValues, r \in RawTextValues }
    \cup { SummarizeRequest(Undef, Str(TextWithUrls(k)),
                            <<Str(<<"simple">>), Str(<<"1 line">>)>>) : k \in 2..MaxUrls }
    \cup { SummarizeRequest(Undef, Str(<<"hello", "world">>), tl) : tl \in ToneLengthValues }

\* requests to the crypto-explain handler with a JSON object as body
CryptoJsonRequests ==
  { [method |-> "POST", body |-> "json", threadUrl |-> Undef, rawText |-> Undef,
     tone |-> Undef, length |-> Undef, term |-> t, headers |-> "empty"] :
      t \in TermValues }

\* requests whose body is absent or is not JSON, or whose method is not POST
OtherRequests ==
  { BareRequest(m, b) : m \in {"POST", "OPTIONS", "GET"}, b \in {"missing", "invalid"} }

\* requests to the track-visit handler: it reads the method and the headers
TrackRequests ==
  { [BareRequest(m, "missing") EXCEPT !.headers = h] :
      m \in {"POST", "OPTIONS", "GET"}, h \in HeaderValues }

\* the requests a variant can receive; the Express route is reached only by a
\* POST whose body express.json() has parsed
Requests(v) ==
  CASE v = "track" -> TrackRequests
    [] v = "summarize" -> SummarizeJsonRequests \cup OtherRequests
    [] v = "crypto" -> CryptoJsonRequests \cup OtherRequests
    [] v = "server" -> SummarizeJsonRequests

\* ----------------------------------------------------- errors, responses
Err(n, m, c) == [name |-> n, message |-> m, code |-> c]
NoErr == Err("none", << >>, "none")

\* the headers every return of a Netlify handler carries; the Express route
\* sets Content-Type only
Headers(v) == IF v = "server" THEN "json" ELSE "cors"

Response(v, st, k, txt) ==
  [status |-> st, headers |-> Headers(v), kind |-> k, text |-> txt]
NoResponse == [status |-> 0, headers |-> "none", kind |-> "none", text |-> << >>]

\* --------------------------------------------------- makeApiCallWithRetry
\* Retries with the default of server.ts in every variant
Retries_three(v) == RetriesServer

\* a call of makeApiCallWithRetry on its own: the argument it was given, the
\* POSTs it has issued, where it is suspended and how it completed
VARIABLE race

\* the handlers call makeApiCallWithRetry() without an argument
NoRace ==
  [given |-> FALSE, retries |-> 0, calls |-> << >>, attempt |-> 0, at |-> "off",
   result |-> [kind |-> "none", from |-> 0, value |-> << >>]]

\* the parameter retries: the argument, or its default value
Retries(v) ==
  IF race.given THEN race.retries
  ELSE CASE v = "summarize" -> RetriesSummarize
         [] v = "crypto" -> RetriesCrypto
         [] v = "server" -> RetriesServer

\* the time after which the timer of an attempt fires
TimeoutMs(v, a) ==
  CASE v = "summarize" -> (IF a = 1 THEN 4000 ELSE 3000)
    [] v = "crypto" -> 8000
    [] v = "server" -> 20000

\* the pause before the attempt that follows a retried HTTP status
StatusBackoff(v, a) == IF v = "server" THEN 1000 * a * a ELSE 500

\* the pause before the attempt that follows a retried exception
CatchBackoff(v, a) == IF v = "server" THEN 1000 * a * a ELSE 300

\* error bodies of the upstream
ErrTexts ==
  { <<"secret">>, <<"fetch">>, <<"rate limit">>, <<"credits">> }

\* bodies of a successful answer of the upstream
BodyKinds == {"good", "short", "blank", "nullcontent", "nochoices", "nonjson", "emptybody"}

ErrorStatuses == {400, 402, 429, 500}

HttpOutcome(st, txt, tok, b) ==
  [kind |-> "http", status |-> st, text |-> txt, textOk |-> tok, body |-> b,
   code |-> "none", msg |-> << >>]
TimeoutOutcome ==
  [kind |-> "timeout", status |-> 0, text |-> << >>, textOk |-> TRUE, body |-> "none",
   code |-> "none", msg |-> << >>]
NetErrOutcome(c, m) ==
  [kind |-> "neterr", status |-> 0, text |-> << >>, textOk |-> TRUE, body |-> "none",
   code |-> c, msg |-> m]

\* what one attempt can meet: an HTTP answer, the timer winning the race, or
\* the transport failing.  The Express caller awaits llmRes.text() without a
\* catch; the model gives it readable error bodies only.
LlmOutcomes(v) ==
  { HttpOutcome(200, << >>, TRUE, b) : b \in BodyKinds }
    \cup { HttpOutcome(st, txt, TRUE, "none") : st \in ErrorStatuses, txt \in ErrTexts }
    \cup { HttpOutcome(st, << >>, FALSE, "none") : st \in (IF v = "server" THEN {} ELSE ErrorStatuses) }
    \cup { TimeoutOutcome }
    \cup { NetErrOutcome("ECONNRESET", <<"socket hang up">>),
           NetErrOutcome("ENOTFOUND", <<"request failed">>),
           NetErrOutcome("ENOTFOUND", <<"failed to", "fetch">>) }

\* Ok with the lower bound off by one: 200 is not a success
Ok_above200(o) == o.status > 200 /\ o.status <= 299

\* llmRes.ok
Ok(o) == o.status >= 200 /\ o.status <= 299

\* what the timer (Netlify) or the abort (Express) raises
TimeoutError(v) ==
  IF v = "server" THEN Err("AbortError", <<"The user aborted a request.">>, "none")
                  ELSE Err("Error", <<"Request timeout">>, "none")

MaintenanceMessage == <<"Site under maintenance", "bear with us and try again later">>

\* await llmRes.text().catch(() => 'Unknown error')
ErrText(v, o) == IF o.textOk THEN o.text ELSE <<"Unknown error">>

\* RetryableStatus with the rule of server.ts in every variant
RetryableStatus_429(v, st) == st >= 500 \/ st = 429

\* the condition under which a non-ok status is retried
RetryableStatus(v, st) ==
  IF v = "server" THEN st >= 500 \/ st = 429 ELSE st >= 500

\* the error thrown for a non-ok status that is not retried
StatusError(v, st, txt) ==
  CASE v = "summarize" -> Err("Error", <<"AI service error:">> \o txt, "none")
    [] v = "crypto" ->
         IF st = 429 \/ Includes(txt, "rate limit") \/ Includes(txt, "quota")
              \/ Includes(txt, "usage")
         THEN Err("Error", MaintenanceMessage, "none")
         ELSE IF st = 402 \/ Includes(txt, "insufficient") \/ Includes(txt, "credits")
                   \/ Includes(txt, "requires more credits") \/ Includes(txt, "can only afford")
              THEN Err("Error", MaintenanceMessage, "none")
              ELSE Err("Error", <<"AI service error:">> \o txt, "none")
    [] v = "server" ->
         Err("Error", <<"OpenRouter API error (", ToString(st), "):">>
                        \o (IF txt # << >> THEN txt ELSE <<"LLM summarization failed">>), "none")

Return == [kind |-> "return", delay |-> 0, err |-> NoErr]
Continue(d) == [kind |-> "continue", delay |-> d, err |-> NoErr]
Throw(e) == [kind |-> "throw", delay |-> 0, err |-> e]

\* the try block of one iteration, on the outcome o of attempt a
TryBody(v, a, o) ==
  CASE o.kind = "timeout" -> Throw(TimeoutError(v))
    [] o.kind = "neterr" -> Throw(Err("FetchError", o.msg, o.code))
    [] o.kind = "http" ->
         IF Ok(o) THEN Return
         ELSE IF RetryableStatus(v, o.status) /\ a < Retries(v)
              THEN Continue(StatusBackoff(v, a))
              ELSE Throw(StatusError(v, o.status, ErrText(v, o)))

\* RetryableError without the test for the timeout
RetryableError_noTimeout(v, e) == Includes(e.message, "fetch") \/ e.code = "ECONNRESET"

\* the condition under which a caught error is retried
RetryableError(v, e) ==
  IF v = "server"
  THEN e.name = "AbortError" \/ Includes(e.message, "fetch") \/ e.code = "ECONNRESET"
  ELSE e.message = <<"Request timeout">> \/ Includes(e.message, "fetch")
         \/ e.code = "ECONNRESET"

\* the catch block retrying on the last attempt as well
CatchBlock_noLimit(v, a, e) ==
  IF RetryableError(v, e) THEN Continue(CatchBackoff(v, a)) ELSE Throw(e)

\* the catch block of one iteration
CatchBlock(v, a, e) ==
  IF RetryableError(v, e) /\ a < Retries(v)
  THEN Continue(CatchBackoff(v, a))
  ELSE Throw(e)

\* one iteration of the loop: the throw of the try block lands in its catch
AttemptResult(v, a, o) ==
  LET r == TryBody(v, a, o)
  IN  IF r.kind = "throw" THEN CatchBlock(v, a, r.err) ELSE r

\* what the attempt log keeps of an outcome: the status, 0 for a timeout,
\* -1 for a transport error
OutcomeClass(o) ==
  CASE o.kind = "http" -> o.status
    [] o.kind = "timeout" -> 0
    [] o.kind = "neterr" -> -1

\* ------------------------------------------------------------------ state
VARIABLES
  variant,           \* which handler serves the request
  req,               \* the request
  pc,                \* where the handler is suspended
  threadText,        \* let threadText
  isTwitterContent,  \* let isTwitterContent
  contentType,       \* let contentType (summarize.js only)
  fetchMode,         \* "single": fetch of threadUrl, "multi": fetchContentFromTwitterUrls
  urlQueue,          \* the URLs still to fetch, the current one first
  rootText,          \* originalTweet.text of the current URL
  contents,          \* const contents = []
  errors,            \* const errors = []
  twitterCalls,      \* calls issued to the social platform API
  attempt,           \* the loop variable of makeApiCallWithRetry
  llmCalls,          \* POSTs issued to the LLM API
  attemptLog,        \* OutcomeClass of every attempt so far
  fetchLog,          \* for every attempt so far: did what it met mention "fetch"
  delays,            \* the pauses slept between attempts
  llmRes,            \* the response makeApiCallWithRetry returned
  prompt,            \* the content of the user message sent to the LLM
  summary,           \* let summary / let explanation
  err,               \* the error the handler's catch block received
  response,          \* the HTTP response sent
  analyticsData,     \* the in-memory store of analytics.js
  sheetRows,         \* rows appended to the spreadsheet
  logOutcomes,       \* how the analytics writes of the request ended
  fn,                \* the helper function under evaluation, "none" in a request
  arg,               \* the argument the helper function was first called with
  out,               \* the results of its successive calls
  procs,             \* the concurrent calls of analytics functions, "jobs"
  book,              \* the spreadsheet: the rows of every sheet
  overwritten        \* the first rows that initializeSheets has written over

reqVars == <<variant, req>>
textVars == <<threadText, isTwitterContent, contentType>>
fetchVars == <<fetchMode, urlQueue, rootText, contents, errors, twitterCalls>>
callVars == <<attempt, llmCalls, attemptLog, fetchLog, delays, llmRes, prompt>>
resVars == <<summary, err, response>>
logVars == <<analyticsData, sheetRows, logOutcomes>>
pureVars == <<fn, arg, out>>
jobVars == <<procs, book, overwritten, race>>
vars == <<reqVars, pc, textVars, fetchVars, callVars, resVars, logVars, pureVars, jobVars>>

\* the keys of analyticsData.toneUsage[date]
ToneKeys == { tl[1] : tl \in ToneLengthValues } \cup { Str(<<"unknown">>) }

\* let analyticsData = { toneUsage: {}, ..., summarizationLogs: [] }
EmptyAnalytics ==
  [toneUsage |-> [k \in ToneKeys |-> 0], siteVisits |-> << >>, dailyVisits |-> 0,
   summarizationLogs |-> << >>]

\* the locals of a handler that has not run yet, and the stores
InitLocals ==
  /\ threadText = << >>
  /\ isTwitterContent = FALSE
  /\ contentType = "general_text"
  /\ fetchMode = "none"
  /\ urlQueue = << >>
  /\ rootText = << >>
  /\ contents = << >>
  /\ errors = << >>
  /\ twitterCalls = 0
  /\ attempt = 1
  /\ llmCalls = 0
  /\ attemptLog = << >>
  /\ fetchLog = << >>
  /\ delays = << >>
  /\ llmRes = TimeoutOutcome
  /\ prompt = << >>
  /\ summary = << >>
  /\ err = NoErr
  /\ response = NoResponse
  /\ analyticsData = EmptyAnalytics
  /\ sheetRows = << >>
  /\ logOutcomes = << >>

\* no concurrent call is under way
NoJobs ==
  /\ procs = << >>
  /\ book = << >>
  /\ overwritten = {}
  /\ race = NoRace

Init ==
  /\ variant \in Variants
  /\ req \in Requests(variant)
  /\ pc = "start"
  /\ InitLocals
  /\ fn = "none"
  /\ arg = << >>
  /\ out = << >>
  /\ NoJobs

\* ------------------------------------------------- receiving the request
\* JSON.parse(event.body) of summarize.js: throws on a missing or malformed body
ParseThrowsSummarize(b) == b \in {"missing", "invalid"}

\* JSON.parse(event.body || '{}') of crypto-explain.js
ParseThrowsCrypto(b) == b = "invalid"

JsonSyntaxError == Err("SyntaxError", <<"Unexpected token in JSON">>, "none")

\* threadUrl && /https?:...status\/\d+/.test(threadUrl)
IsStatusRequest(r) == Truthy(r.threadUrl) /\ MatchesStatusUrl(r.threadUrl.s)

\* rawText && rawText.length > 0
HasRawText(r) == Truthy(r.rawText) /\ Len(r.rawText.s) > 0

\* the fallback test without trim()
HasFallbackText_untrimmed(r) == Truthy(r.rawText)

\* rawText && rawText.trim()
HasFallbackText(r) == Truthy(r.rawText) /\ Trim(r.rawText.s) # << >>

\* urls.slice(0, 2) in summarize.js, urls.slice(0, 3) in server.ts
UrlLimit_none(v) == MaxUrls + 1

\* the argument of urls.slice(0, n)
UrlLimit(v) == IF v = "server" THEN UrlLimitServer ELSE UrlLimitSummarize

\* the handler of summarize.js, from its entry to its first await or return
ReceiveSummarize ==
  /\ pc = "start"
  /\ UNCHANGED <<pureVars, jobVars>>
  /\ variant = "summarize"
  /\ UNCHANGED <<reqVars, callVars, logVars, rootText, contents, errors, twitterCalls,
                 summary>>
  /\ IF req.method = "OPTIONS"
     THEN /\ response' = Response(variant, 200, "empty", << >>)
          /\ pc' = "done"
          /\ UNCHANGED <<err, textVars, fetchMode, urlQueue>>
     ELSE IF req.method # "POST"
     THEN /\ response' = Response(variant, 405, "error", <<"Method not allowed">>)
          /\ pc' = "done"
          /\ UNCHANGED <<err, textVars, fetchMode, urlQueue>>
     ELSE IF ParseThrowsSummarize(req.body)
     THEN /\ err' = JsonSyntaxError
          /\ pc' = "catch"
          /\ UNCHANGED <<response, textVars, fetchMode, urlQueue>>
     ELSE IF IsStatusRequest(req)
     THEN /\ contentType' = "twitter_url"
          /\ fetchMode' = "single"
          /\ urlQueue' = <<Head(req.threadUrl.s)>>
          /\ pc' = "root"
          /\ UNCHANGED <<err, response, threadText, isTwitterContent>>
     ELSE IF HasRawText(req)
     THEN IF Len(extractTwitterUrls(req.rawText.s)) > 0
          THEN /\ contentType' = "twitter_text"
               /\ fetchMode' = "multi"
               /\ urlQueue' = Slice(extractTwitterUrls(req.rawText.s), UrlLimit(variant))
               /\ pc' = "root"
               /\ UNCHANGED <<err, response, threadText, isTwitterContent>>
          ELSE /\ isTwitterContent' = detectTwitterContent(req.rawText.s)
               /\ contentType' = IF detectTwitterContent(req.rawText.s)
                                  THEN "twitter_text" ELSE "general_text"
               /\ threadText' = req.rawText.s
               /\ pc' = "llm"
               /\ UNCHANGED <<err, response, fetchMode, urlQueue>>
     ELSE /\ response' = Response(variant, 400, "error", <<"No thread link or text provided.">>)
          /\ pc' = "done"
          /\ UNCHANGED <<err, textVars, fetchMode, urlQueue>>

\* the route POST /summarize of server.ts, from its entry to its first await
ReceiveServer ==
  /\ pc = "start"
  /\ UNCHANGED <<pureVars, jobVars>>
  /\ variant = "server"
  /\ UNCHANGED <<reqVars, callVars, logVars, rootText, contents, errors, twitterCalls,
                 summary, err, contentType>>
  /\ IF ~Truthy(req.threadUrl) /\ ~Truthy(req.rawText)
     THEN /\ response' = Response(variant, 400, "error", <<"No thread link or text provided.">>)
          /\ pc' = "done"
          /\ UNCHANGED <<threadText, isTwitterContent, fetchMode, urlQueue>>
     ELSE IF IsStatusRequest(req)
     THEN /\ fetchMode' = "single"
          /\ urlQueue' = <<Head(req.threadUrl.s)>>
          /\ pc' = "root"
          /\ UNCHANGED <<response, threadText, isTwitterContent>>
     ELSE IF HasRawText(req)
     THEN IF Len(extractTwitterUrls(req.rawText.s)) > 0
          THEN /\ fetchMode' = "multi"
               /\ urlQueue' = Slice(extractTwitterUrls(req.rawText.s), UrlLimit(variant))
               /\ pc' = "root"
               /\ UNCHANGED <<response, threadText, isTwitterContent>>
          ELSE /\ isTwitterContent' = detectTwitterContent(req.rawText.s)
               /\ threadText' = req.rawText.s
               /\ pc' = "llm"
               /\ UNCHANGED <<response, fetchMode, urlQueue>>
     ELSE /\ response' = Response(variant, 400, "error", <<"No thread link or text provided.">>)
          /\ pc' = "done"
          /\ UNCHANGED <<threadText, isTwitterContent, fetchMode, urlQueue>>

\* !term || !term.trim(): a number has no trim method
TermCheck(t) ==
  CASE ~Truthy(t) -> "reject"
    [] t.t # "string" -> "typeerror"
    [] Trim(t.s) = << >> -> "reject"
    [] OTHER -> "accept"

\* the handler of crypto-explain.js, from its entry to its first await or return
ReceiveCrypto ==
  /\ pc = "start"
  /\ UNCHANGED <<pureVars, jobVars>>
  /\ variant = "crypto"
  /\ UNCHANGED <<reqVars, callVars, logVars, fetchVars, isTwitterContent, contentType,
                 summary>>
  /\ IF req.method = "OPTIONS"
     THEN /\ response' = Response(variant, 200, "empty", << >>)
          /\ pc' = "done"
          /\ UNCHANGED <<err, threadText>>
     ELSE IF req.method # "POST"
     THEN /\ response' = Response(variant, 405, "error", <<"Method not allowed">>)
          /\ pc' = "done"
          /\ UNCHANGED <<err, threadText>>
     ELSE IF ParseThrowsCrypto(req.body)
     THEN /\ err' = JsonSyntaxError
          /\ pc' = "catch"
          /\ UNCHANGED <<response, threadText>>
     ELSE IF TermCheck(req.term) = "reject"
     THEN /\ response' = Response(variant, 400, "error", <<"No crypto term provided.">>)
          /\ pc' = "done"
          /\ UNCHANGED <<err, threadText>>
     ELSE IF TermCheck(req.term) = "typeerror"
     THEN /\ err' = Err("TypeError", <<"term.trim is not a function">>, "none")
          /\ pc' = "catch"
          /\ UNCHANGED <<response, threadText>>
     ELSE /\ threadText' = Trim(req.term.s)
          /\ pc' = "llm"
          /\ UNCHANGED <<err, response>>

\* ------------------------------------------- fetching the thread content
\* how the request for the root message can end.  "unconfigured": the bearer
\* token is not set and no request is sent (summarize.js only); "nodata": a
\* success without data; a number: that HTTP status or error code; "nocode":
\* the client library raised an error without a code (server.ts only)
RootOutcomes(v) ==
  IF v = "server"
  THEN {"ok", "nodata", "404", "nocode"}
  ELSE {"ok", "nodata", "404", "timeout", "unconfigured"}

\* the message of the error fetchTwitterContent (summarize.js) ends with
RootMessageSummarize(url, r) ==
  <<"Unable to fetch content from", url, ":">> \o
    ( CASE r = "badurl" -> <<"Invalid Twitter URL format">>
        [] r = "unconfigured" -> <<"Twitter API access not configured">>
        [] r = "timeout" -> <<"Twitter API timeout">>
        [] r = "neterr" -> <<"request failed">>
        [] r = "nodata" -> <<"Unable to fetch original tweet">>
        [] r = "401" -> <<"Twitter API authentication failed">>
        [] r = "403" -> <<"Tweet is private or protected">>
        [] r = "404" -> <<"Tweet not found or has been deleted">>
        [] OTHER -> <<"Twitter API error:", r, "- Unknown error">> )

\* the message of the error fetchThreadTextFromTwitter (server.ts) ends with
RootMessageServer(url, r) ==
  CASE r = "badurl" -> <<"Invalid Twitter URL format">>
    [] r = "nodata" -> <<"No content could be retrieved from the Twitter URL">>
    [] r = "401" -> <<"Twitter API authentication failed. Please check your API credentials.">>
    [] r = "403" -> <<"Tweet is private, protected, or access is forbidden.">>
    [] r = "404" -> <<"Tweet not found or has been deleted.">>
    [] r = "429" -> <<"Twitter API rate limit exceeded. Please try again later.">>
    [] r = "nocode" -> <<"Unable to fetch Twitter content from", url,
                         ". The link may be private, deleted, or require authentication.">>
    [] OTHER -> <<"Twitter API error (", r,
                  "). The link may be private, deleted, or require authentication.">>

RootMessage(v, url, r) ==
  IF v = "server" THEN RootMessageServer(url, r) ELSE RootMessageSummarize(url, r)

\* originalTweet.text
RootTextOf(url) == <<"tweet of", url>>

\* the orders in which the search can return n messages, each message named
\* by its creation time
Perms(n) == { p \in [1..n -> 1..n] : \A i, j \in 1..n : p[i] = p[j] => i = j }

\* how the conversation search can end; the Express client has no timer
ConvOutcomes(v) ==
  { [kind |-> "ok", tweets |-> p] : p \in UNION { Perms(n) : n \in 0..MaxTweets } }
    \cup { [kind |-> k, tweets |-> << >>] :
             k \in (IF v = "server" THEN {"error"} ELSE {"timeout", "neterr", "nonok"}) }

\* tweets.sort((a, b) => created_at(a) - created_at(b))
SortByCreation(ts) ==
  CHOOSE p \in Perms(Len(ts)) :
    /\ \A i \in 1..Len(ts) : \E j \in 1..Len(ts) : p[i] = ts[j]
    /\ \A i, j \in 1..Len(ts) : i < j => p[i] < p[j]

\* sorted.map((t, index) => `${index + 1}. ${t.text}`)
NumberedThread(ts) ==
  [i \in 1..Len(ts) |-> ToString(i) \o ". tweet" \o ToString(SortByCreation(ts)[i])]

\* ThreadTextOf without the test tweets.length > 0
ThreadTextOf_unchecked(root, c) ==
  IF c.kind = "ok" THEN NumberedThread(c.tweets) ELSE root

\* what the fetch returns once the root message is there
ThreadTextOf(root, c) ==
  IF c.kind = "ok" /\ Len(c.tweets) > 0 THEN NumberedThread(c.tweets) ELSE root

\* fetchTwitterContent / fetchThreadTextFromTwitter as a function of what the
\* two calls meet: the text it returns, or the message of the error it throws
FetchResult(v, url, r, c) ==
  IF r = "ok" THEN [ok |-> TRUE, text |-> ThreadTextOf(RootTextOf(url), c)]
  ELSE [ok |-> FALSE, text |-> RootMessage(v, url, r)]

\* the text that closes the 400 answer of a failed fetch
PasteAdvice(v) ==
  IF v = "server"
  THEN <<"You can copy and paste the tweet content directly into the text area instead.">>
  ELSE <<"Please copy and paste the tweet content directly into the text area instead.">>

\* contentType after the fallback to rawText (summarize.js sets it, server.ts
\* has no such variable)
FallbackContentType(v, ct) == IF v = "server" THEN ct ELSE "twitter_text"

\* contents, with the block of errors added when some URL failed
WithErrorBlock(cs, es) ==
  IF Len(es) > 0
  THEN Append(cs, <<"--- Errors fetching some URLs ---">> \o JoinTexts(es))
  ELSE cs

\* The fetch of the current URL has ended, with the text txt when ok and with
\* an error of message txt otherwise: what the caller of the fetch does next.
FetchDone(ok, txt) ==
  LET url == Head(urlQueue)
      contents1 == IF ok THEN Append(contents, <<"--- Content from", url, "---">> \o txt)
                         ELSE contents
      errors1 == IF ok THEN errors ELSE Append(errors, <<url, ":">> \o txt)
  IN
  IF fetchMode = "single"
  THEN /\ urlQueue' = Tail(urlQueue)
       /\ UNCHANGED <<contents, errors>>
       /\ IF ok
          THEN /\ threadText' = txt
               /\ isTwitterContent' = TRUE
               /\ pc' = "llm"
               /\ UNCHANGED <<contentType, response>>
          ELSE IF HasFallbackText(req)
          THEN /\ threadText' = req.rawText.s
               /\ isTwitterContent' = TRUE
               /\ contentType' = FallbackContentType(variant, contentType)
               /\ pc' = "llm"
               /\ UNCHANGED response
          ELSE /\ response' = Response(variant, 400, "error", txt \o PasteAdvice(variant))
               /\ pc' = "done"
               /\ UNCHANGED textVars
  ELSE /\ urlQueue' = Tail(urlQueue)
       /\ errors' = errors1
       /\ UNCHANGED <<contentType, response>>
       /\ IF Tail(urlQueue) # << >>
          THEN /\ contents' = contents1
               /\ pc' = "root"
               /\ UNCHANGED <<threadText, isTwitterContent>>
          ELSE /\ contents' = IF Len(contents1) = 0 THEN contents1
                                                     ELSE WithErrorBlock(contents1, errors1)
               /\ threadText' =
                    IF Len(contents1) = 0
                    THEN req.rawText.s
                    ELSE req.rawText.s \o <<"--- FETCHED TWITTER CONTENT ---">>
                           \o JoinTexts(WithErrorBlock(contents1, errors1))
               /\ isTwitterContent' = TRUE
               /\ pc' = "llm"

\* extractThreadId(url) throws unless the pattern matches; then no request is
\* sent
RootOutcomesFor(v, url) == IF IsStatusUrl(url) THEN RootOutcomes(v) ELSE {"badurl"}

\* the request for the root message of the current URL
FetchRoot ==
  /\ pc = "root"
  /\ UNCHANGED <<pureVars, jobVars>>
  /\ UNCHANGED <<reqVars, callVars, logVars, summary, err, fetchMode>>
  /\ \E r \in RootOutcomesFor(variant, Head(urlQueue)) :
       /\ twitterCalls' = IF r \in {"unconfigured", "badurl"} THEN twitterCalls
                                                                ELSE twitterCalls + 1
       /\ IF r = "ok"
          THEN /\ rootText' = RootTextOf(Head(urlQueue))
               /\ pc' = "conv"
               /\ UNCHANGED <<textVars, urlQueue, contents, errors, response>>
          ELSE /\ UNCHANGED rootText
               /\ FetchDone(FALSE, RootMessage(variant, Head(urlQueue), r))

\* the search for the conversation of the current URL
FetchConversation ==
  /\ pc = "conv"
  /\ UNCHANGED <<pureVars, jobVars>>
  /\ UNCHANGED <<reqVars, callVars, logVars, summary, err, fetchMode, rootText>>
  /\ twitterCalls' = twitterCalls + 1
  /\ \E c \in ConvOutcomes(variant) : FetchDone(TRUE, ThreadTextOf(rootText, c))

\* ------------------------------------------------------ calling the LLM
\* what the code after the for loop does when the loop ends without a return
\* or a throw: summarize.js and crypto-explain.js return undefined, and the
\* handler's llmRes.text() raises a TypeError; server.ts throws
LoopExitError(v) ==
  IF v = "server"
  THEN Err("Error", <<"All retry attempts failed">>, "none")
  ELSE Err("TypeError", <<"Cannot read properties of undefined (reading 'text')">>, "none")

\* attempt <= retries
LoopCondition(v, a) == a <= Retries(v)

\* does the error body or the error message of an outcome mention "fetch"
MentionsFetch(o) == Includes(o.text, "fetch") \/ Includes(o.msg, "fetch")

\* `${x}` in a template literal: String(x)
TemplateText(x) ==
  CASE x.t = "string" -> x.s
    [] x.t = "number" -> <<ToString(x.n)>>
    [] OTHER -> <<"undefined">>

\* the case labels of switch (tone)
ListedTones == {"shitpost", "infographics", "simple", "professional", "conversational"}

\* the sentence a case of the switch puts around ${length}
ToneSentence(t, length) ==
  CASE t = "shitpost" -> <<"Turn this into a">> \o length \o <<"that's funny">>
    [] t = "infographics" -> <<"Make this into">> \o length \o <<"for an infographic">>
    [] t = "simple" -> <<"Break this down into">> \o length \o <<"anyone can understand">>
    [] t = "professional" -> <<"Write this as">> \o length \o <<"in professional tone">>
    [] t = "conversational" -> <<"Explain this in">> \o length \o <<"like talking to a friend">>

\* the default branch without ${tone}
DefaultSentence_noTone(tone, length) ==
  <<"Write this as">> \o TemplateText(length) \o <<"with an authentic tone">>

\* the default branch of the switch: ${length} and ${tone} as they came
DefaultSentence(tone, length) ==
  <<"Write this as">> \o TemplateText(length) \o <<"with">> \o TemplateText(tone)
    \o <<"tone">>

\* getPromptForTone; bulletInstruction and the heading of the content exist
\* in summarize.js only
getPromptForTone(v, tone, length, content, isTwitter) ==
  LET twitterContext == IF isTwitter THEN <<"This is Twitter/X content.">> ELSE << >>
      bulletInstruction ==
        IF v = "summarize" /\ length = Str(<<"bullet list">>)
        THEN <<"Format as clean, SHORT bullet points.">> ELSE << >>
      sentence ==
        IF tone.t = "string" /\ Len(tone.s) = 1 /\ tone.s[1] \in ListedTones
        THEN ToneSentence(tone.s[1], TemplateText(length))
        ELSE DefaultSentence(tone, length)
  IN  twitterContext \o bulletInstruction \o sentence \o <<"[baseInstruction]">>
        \o (IF v = "summarize" THEN <<"CONTENT TO SUMMARIZE:">> ELSE << >>)
        \o content

\* the user message of the request: the crypto handlers build theirs from the
\* term
PromptOf(v) ==
  IF v = "crypto"
  THEN <<"Someone just asked you about">> \o Trim(TemplateText(req.term))
         \o <<"Explain:">> \o Trim(TemplateText(req.term))
  ELSE getPromptForTone(v, req.tone, req.length, threadText, isTwitterContent)

\* one iteration of the for loop of makeApiCallWithRetry: the prompt, the
\* POST, its race against the timer, and the pause before the next iteration
CallAttempt ==
  /\ pc = "llm"
  /\ UNCHANGED <<pureVars, jobVars>>
  /\ UNCHANGED <<reqVars, textVars, fetchVars, logVars, summary, response>>
  /\ IF LoopCondition(variant, attempt)
     THEN \E o \in LlmOutcomes(variant) :
            LET r == AttemptResult(variant, attempt, o)
            IN  /\ llmCalls' = llmCalls + 1
                /\ prompt' = PromptOf(variant)
                /\ attemptLog' = Append(attemptLog, OutcomeClass(o))
                /\ fetchLog' = Append(fetchLog, MentionsFetch(o))
                /\ CASE r.kind = "continue" ->
                          /\ attempt' = attempt + 1
                          /\ delays' = Append(delays, r.delay)
                          /\ pc' = "llm"
                          /\ UNCHANGED <<llmRes, err>>
                     [] r.kind = "return" ->
                          /\ llmRes' = o
                          /\ pc' = "parse"
                          /\ UNCHANGED <<attempt, delays, err>>
                     [] r.kind = "throw" ->
                          /\ err' = r.err
                          /\ pc' = "catch"
                          /\ UNCHANGED <<attempt, delays, llmRes>>
     ELSE /\ err' = LoopExitError(variant)
          /\ pc' = "catch"
          /\ UNCHANGED callVars

\* --------------------------------------------- reading the LLM's answer
\* The text the handler returns for the content of a body.  "good" is the
\* content "AI is getting better fast.": no clean-up rule applies to it and
\* it ends a sentence of five words, so every variant returns it unchanged.
\* "short" is the content "ok": postProcessSummary (tones other than
\* shitpost) and postProcessExplanation replace a text shorter than 10 or 20
\* characters by their apology, which ends with punctuation and stays;
\* server.ts only appends a period.
FinalText(v, b) ==
  CASE b = "good" -> <<"AI is getting better fast.">>
    [] b = "short" /\ v = "summarize" ->
         <<"Unable to generate a clear summary.", "The content may be too complex or unclear.">>
    [] b = "short" /\ v = "crypto" ->
         <<"I couldn't generate a clear explanation for that term.",
           "Could you try asking about it in a different way?">>
    [] b = "short" /\ v = "server" -> <<"ok.">>

\* the field of the 200 body
ResultKind(v) == IF v = "crypto" THEN "explanation" ELSE "summary"

EmptyResultMessage(v) ==
  IF v = "crypto" THEN <<"Empty explanation received from AI service">>
                  ELSE <<"Empty summary received from AI service">>

Proceed == [kind |-> "proceed", status |-> 200, text |-> << >>, err |-> NoErr]
Reply(st, txt) == [kind |-> "reply", status |-> st, text |-> txt, err |-> NoErr]
Fail(e) == [kind |-> "throw", status |-> 0, text |-> << >>, err |-> e]

\* from llmRes.text() to the check of the summary
ParseResult(v, b) ==
  CASE b = "emptybody" ->
         IF v = "server" THEN Reply(500, <<"Empty response from AI service">>)
                         ELSE Reply(500, <<"Invalid response from AI service">>)
    [] b = "nonjson" -> Reply(500, <<"Invalid response from AI service">>)
    [] b = "nochoices" -> Reply(500, <<"Invalid response structure from AI service">>)
    [] b = "nullcontent" ->
         IF v = "server" THEN Reply(500, EmptyResultMessage(v))
         ELSE Fail(Err("TypeError", <<"Cannot read properties of null (reading 'trim')">>, "none"))
    [] b = "blank" -> Reply(500, EmptyResultMessage(v))
    [] OTHER -> Proceed

\* tone || 'unknown', length || 'unknown'
OrUnknown(x) == IF Truthy(x) THEN x ELSE Str(<<"unknown">>)

LogEntry(tone, length, ct, success) ==
  [tone |-> tone, length |-> length, contentType |-> ct,
   status |-> IF success THEN "Success" ELSE "Failed"]

\* the part of logToneUsage before its first await
CountTone(a, tone) ==
  [a EXCEPT !.toneUsage = [@ EXCEPT ![tone] = @ + 1]]

\* PushLog without the push: the event is not kept
PushLog_dropped(a, entry) == a

\* the part of logSummarizationRequest before its first await
PushLog(a, entry) ==
  [a EXCEPT !.summarizationLogs = Append(@, entry)]

\* the handler after makeApiCallWithRetry has returned, up to its next await
\* (the analytics writes of summarize.js) or to its return
ProcessResponse ==
  /\ pc = "parse"
  /\ UNCHANGED <<pureVars, jobVars>>
  /\ UNCHANGED <<reqVars, textVars, fetchVars, callVars, sheetRows, logOutcomes>>
  /\ LET p == ParseResult(variant, llmRes.body)
     IN  CASE p.kind = "reply" ->
                /\ response' = Response(variant, p.status, "error", p.text)
                /\ pc' = "done"
                /\ UNCHANGED <<summary, err, analyticsData>>
           [] p.kind = "throw" ->
                /\ err' = p.err
                /\ pc' = "catch"
                /\ UNCHANGED <<summary, response, analyticsData>>
           [] p.kind = "proceed" ->
                /\ summary' = FinalText(variant, llmRes.body)
                /\ UNCHANGED err
                /\ IF variant = "summarize"
                   THEN /\ analyticsData' =
                             PushLog(CountTone(analyticsData, req.tone),
                                     LogEntry(req.tone, req.length, contentType, TRUE))
                        /\ pc' = "logOk"
                        /\ UNCHANGED response
                   ELSE /\ response' = Response(variant, 200, ResultKind(variant),
                                                 FinalText(variant, llmRes.body))
                        /\ pc' = "done"
                        /\ UNCHANGED analyticsData

\* ------------------------------------------------------ analytics writes
\* how the spreadsheet part of a log function can end: no client could be
\* built, the append succeeded, the append was rejected, the append never
\* completes (no timer guards it)
SheetOutcomes == {"noclient", "appended", "rejected", "pending"}

ToneRow(tone) ==
  [sheet |-> "ToneUsage", tone |-> tone, length |-> Undef, contentType |-> "",
   status |-> ""]
LogRow(e) ==
  [sheet |-> "SummarizationLogs", tone |-> e.tone, length |-> e.length,
   contentType |-> e.contentType, status |-> e.status]

\* the rows a log function leaves in the spreadsheet
Appended(o, row) == IF o = "appended" THEN <<row>> ELSE << >>

\* the promise of logToneUsage or logSummarizationRequest: both wrap their
\* body, the append included, in try/catch, and both await the append
LogPromise(o) == IF o = "pending" THEN "pending" ELSE "fulfilled"

\* Promise.all
PromiseAll(ps) ==
  IF \E i \in 1..Len(ps) : ps[i] = "rejected" THEN "rejected"
  ELSE IF \E i \in 1..Len(ps) : ps[i] = "pending" THEN "pending"
  ELSE "fulfilled"

\* await Promise.all([...]).catch(err => console.log(...)): where the handler
\* goes on after the analytics writes of a successful request; it waits as
\* long as the promise is pending
AfterSuccessLogging(p) == IF p = "pending" THEN "wait" ELSE "respond"

\* AfterFailureLogging without the try/catch: a throw of JSON.parse leaves the
\* handler
AfterFailureLogging_noCatch(o) ==
  IF o = "threw" THEN "escape" ELSE IF o = "pending" THEN "wait" ELSE "respond"

\* try { JSON.parse(event.body || '{}'); await logSummarizationRequest(...) }
\* catch (logError) { console.error(...) }: where the handler goes on after
\* the analytics write of a failed request; o is "threw" when JSON.parse
\* threw, "pending" while the awaited write has not completed
AfterFailureLogging(o) == IF o = "pending" THEN "wait" ELSE "respond"

\* what the platform answers when the handler's promise rejects
Crashed == [status |-> 502, headers |-> "none", kind |-> "crash", text |-> << >>]

\* the await of the analytics writes of a successful request (summarize.js):
\* they settle and the handler returns 200, or they stay pending and the
\* handler stays at its await
LogSuccessSettles ==
  /\ pc = "logOk"
  /\ UNCHANGED <<pureVars, jobVars>>
  /\ UNCHANGED <<reqVars, textVars, fetchVars, callVars, summary, analyticsData>>
  /\ \E o1, o2 \in SheetOutcomes :
       /\ sheetRows' = sheetRows \o Appended(o1, ToneRow(req.tone))
                          \o Appended(o2, LogRow(LogEntry(req.tone, req.length, contentType, TRUE)))
       /\ logOutcomes' = <<o1, o2>>
       /\ LET next == AfterSuccessLogging(PromiseAll(<<LogPromise(o1), LogPromise(o2)>>))
          IN  CASE next = "respond" ->
                     /\ response' = Response(variant, 200, ResultKind(variant), summary)
                     /\ pc' = "done"
                     /\ UNCHANGED err
                [] next = "wait" ->
                     /\ pc' = "blocked"
                     /\ UNCHANGED <<err, response>>
                [] OTHER ->
                     /\ err' = Err("Error", <<"append failed">>, "none")
                     /\ pc' = "catch"
                     /\ UNCHANGED response

\* ----------------------------------------------------------- track-visit
\* logSiteVisit up to its first await: visitData is pushed and the count of
\* the day goes up
IsMobile(userAgent) == userAgent = "iPhone Safari"
extractBrowser(userAgent) ==
  CASE userAgent = "Chrome" -> "Chrome"
    [] userAgent = "iPhone Safari" -> "Safari"
    [] OTHER -> "Other"
VisitData(userAgent) ==
  [browser |-> extractBrowser(userAgent),
   deviceType |-> IF IsMobile(userAgent) THEN "Mobile" ELSE "Desktop"]
\* PushVisit without the increment of dailyVisits[date]
PushVisit_uncounted(a, userAgent) ==
  [a EXCEPT !.siteVisits = Append(@, VisitData(userAgent))]

\* the part of logSiteVisit before its first await
PushVisit(a, userAgent) ==
  [a EXCEPT !.siteVisits = Append(@, VisitData(userAgent)), !.dailyVisits = @ + 1]

\* event.headers['user-agent'] || ''
UserAgent(r) == IF r.headers = "empty" THEN "" ELSE r.headers

\* the answers of the handler
MethodNotAllowed_ok(v) == Response(v, 200, "success", <<"true">>)
MethodNotAllowed(v) == Response(v, 405, "error", <<"Method not allowed">>)
VisitTracked(v) == Response(v, 200, "success", <<"true">>)
VisitNotTracked(v) == Response(v, 200, "success", <<"false">>)

\* the handler of track-visit.js, from its entry to the first await of
\* logSiteVisit; event.headers[...] throws when there are no headers
ReceiveTrack ==
  /\ pc = "start"
  /\ variant = "track"
  /\ UNCHANGED <<reqVars, textVars, fetchVars, callVars, summary, sheetRows, logOutcomes,
                 pureVars, jobVars>>
  /\ IF req.method = "OPTIONS"
     THEN /\ response' = Response(variant, 200, "empty", << >>)
          /\ pc' = "done"
          /\ UNCHANGED <<err, analyticsData>>
     ELSE IF req.method # "POST"
     THEN /\ response' = MethodNotAllowed(variant)
          /\ pc' = "done"
          /\ UNCHANGED <<err, analyticsData>>
     ELSE IF req.headers = "absent"
     THEN /\ err' = Err("TypeError",
                        <<"Cannot read properties of undefined (reading 'user-agent')">>,
                        "none")
          /\ response' = VisitNotTracked(variant)
          /\ pc' = "done"
          /\ UNCHANGED analyticsData
     ELSE /\ analyticsData' = PushVisit(analyticsData, UserAgent(req))
          /\ pc' = "visit"
          /\ UNCHANGED <<err, response>>

\* how the writes of logSiteVisit end: no client, both rows appended, the
\* first or the second append rejected, an append that never settles
VisitOutcomes == {"noclient", "appended", "rejected", "rejectedSecond", "pending"}

VisitRows(o, a) ==
  LET visit == [sheet |-> "SiteVisits",
                deviceType |-> a.siteVisits[Len(a.siteVisits)].deviceType,
                visits |-> 0]
      daily == [sheet |-> "DailySummary", deviceType |-> "", visits |-> a.dailyVisits]
  IN  CASE o = "appended" -> <<visit, daily>>
        [] o = "rejectedSecond" -> <<visit>>
        [] OTHER -> << >>

\* the rest of logSiteVisit and the return of the handler: the inner catch
\* takes a rejected append, and the handler answers; an append that never
\* settles leaves the handler at its await
VisitSettles ==
  /\ pc = "visit"
  /\ UNCHANGED <<reqVars, textVars, fetchVars, callVars, summary, err, analyticsData,
                 pureVars, jobVars>>
  /\ \E o \in VisitOutcomes :
       /\ sheetRows' = sheetRows \o VisitRows(o, analyticsData)
       /\ logOutcomes' = <<o>>
       /\ IF LogPromise(o) = "pending"
          THEN /\ pc' = "blocked"
               /\ UNCHANGED response
          ELSE /\ response' = VisitTracked(variant)
               /\ pc' = "done"

\* ---------------------------------------------------------- error path
TimeoutAdvice(v) ==
  CASE v = "summarize" ->
         <<"Request timeout - the AI service is taking too long to respond.",
           "Try using shorter content or try again in a moment.">>
    [] v = "crypto" ->
         <<"Request timeout - the AI service is taking too long to respond.",
           "Try again in a moment.">>
    [] v = "server" ->
         <<"The AI service is taking longer than usual.",
           "Try again in a moment or use shorter text.">>

\* err.message || 'Internal server error'
MessageOrDefault(e) ==
  IF e.message # << >> THEN e.message ELSE <<"Internal server error">>

\* the response the outer catch block of a handler builds from the error
ErrorResponse(v, e) ==
  CASE v = "summarize" ->
         IF e.message = <<"Request timeout">>
         THEN Response(v, 408, "error", TimeoutAdvice(v))
         ELSE IF Includes(e.message, "rate limit")
         THEN Response(v, 429, "error",
                       <<"Too many requests - please wait a moment and try again.">>)
         ELSE IF Includes(e.message, "network")
         THEN Response(v, 503, "error",
                       <<"Network error - unable to connect to AI service. Please try again.">>)
         ELSE IF Includes(e.message, "Invalid response")
         THEN Response(v, 502, "error",
                       <<"AI service returned an invalid response. Please try again.">>)
         ELSE Response(v, 500, "error", MessageOrDefault(e))
    [] v = "crypto" ->
         IF e.message = <<"Request timeout">>
         THEN Response(v, 408, "error", TimeoutAdvice(v))
         ELSE IF Includes(e.message, "rate limit") \/ Includes(e.message, "Site under maintenance")
         THEN Response(v, 503, "error", MaintenanceMessage)
         ELSE IF Includes(e.message, "quota") \/ Includes(e.message, "usage")
                   \/ Includes(e.message, "credits")
                   \/ Includes(e.message, "requires more credits")
                   \/ Includes(e.message, "can only afford")
         THEN Response(v, 503, "error", MaintenanceMessage)
         ELSE IF Includes(e.message, "network")
         THEN Response(v, 503, "error",
                       <<"Network error - unable to connect to AI service. Please try again.">>)
         ELSE IF Includes(e.message, "Invalid response")
         THEN Response(v, 502, "error",
                       <<"AI service returned an invalid response. Please try again.">>)
         ELSE Response(v, 500, "error", MessageOrDefault(e))
    [] v = "server" ->
         IF e.name = "AbortError"
         THEN Response(v, 504, "error", TimeoutAdvice(v))
         ELSE Response(v, 500, "error", MessageOrDefault(e))

\* the second JSON.parse(event.body || '{}'), in the catch block of summarize.js
LogParseThrows(b) == b = "invalid"

\* the catch block of summarize.js up to its await: the body is parsed again
\* and the failed request is pushed to the in-memory store
CatchSummarize ==
  /\ pc = "catch"
  /\ UNCHANGED <<pureVars, jobVars>>
  /\ variant = "summarize"
  /\ UNCHANGED <<reqVars, textVars, fetchVars, callVars, summary, err, sheetRows>>
  /\ IF LogParseThrows(req.body)
     THEN /\ logOutcomes' = <<"threw">>
          /\ response' = IF AfterFailureLogging("threw") = "respond"
                          THEN ErrorResponse(variant, err) ELSE Crashed
          /\ pc' = "done"
          /\ UNCHANGED analyticsData
     ELSE /\ analyticsData' =
               PushLog(analyticsData,
                       LogEntry(OrUnknown(req.tone), OrUnknown(req.length), "unknown", FALSE))
          /\ pc' = "logFail"
          /\ UNCHANGED <<response, logOutcomes>>

\* the await of the analytics write of a failed request: it settles and the
\* handler answers, or it stays pending and the handler stays at its await
LogFailureSettles ==
  /\ pc = "logFail"
  /\ UNCHANGED <<pureVars, jobVars>>
  /\ UNCHANGED <<reqVars, textVars, fetchVars, callVars, summary, err, analyticsData>>
  /\ \E o \in SheetOutcomes :
       /\ sheetRows' = sheetRows \o
            Appended(o, LogRow(LogEntry(OrUnknown(req.tone), OrUnknown(req.length),
                                        "unknown", FALSE)))
       /\ logOutcomes' = <<o>>
       /\ LET next == AfterFailureLogging(LogPromise(o))
          IN  CASE next = "respond" ->
                     /\ response' = ErrorResponse(variant, err)
                     /\ pc' = "done"
                [] next = "wait" ->
                     /\ pc' = "blocked"
                     /\ UNCHANGED response
                [] OTHER ->
                     /\ response' = Crashed
                     /\ pc' = "done"

\* the catch block of crypto-explain.js and of the route of server.ts
CatchOther ==
  /\ pc = "catch"
  /\ UNCHANGED <<pureVars, jobVars>>
  /\ variant \in {"crypto", "server"}
  /\ UNCHANGED <<reqVars, textVars, fetchVars, callVars, summary, err, logVars>>
  /\ response' = ErrorResponse(variant, err)
  /\ pc' = "done"

Next ==
  \/ ReceiveSummarize
  \/ ReceiveServer
  \/ ReceiveCrypto
  \/ FetchRoot
  \/ FetchConversation
  \/ CallAttempt
  \/ ProcessResponse
  \/ LogSuccessSettles
  \/ CatchSummarize
  \/ LogFailureSettles
  \/ CatchOther
  \/ ReceiveTrack
  \/ VisitSettles

Spec == Init /\ [][Next]_vars

\* the event loop runs every continuation that is ready
FairSpec == Spec /\ WF_vars(Next)

TypeOK ==
  /\ variant \in Variants
  /\ pc \in {"start", "root", "conv", "llm", "parse", "logOk", "catch", "logFail",
            "visit", "blocked", "done", "helper", "jobs", "race"}
  /\ attempt \in 1..(Retries(variant) + 1)
  /\ llmCalls \in Nat
  /\ twitterCalls \in Nat

\* ======================================================= helper functions
\* ---------------------------------------------- ensureCompleteSentence
\* (summarize.js).  A text is a sequence of tokens: a word, a blank or a
\* punctuation mark.  Two words never stand side by side: a blank or a mark
\* separates them.

\* largest number of words of a text given to ensureCompleteSentence
MaxWords == 5

\* the words texts are made of: one that starts with a capital and is an
\* article, a plain one, a verb, a conjunction
Vocabulary == {"The", "cat", "is", "and"}

\* the marks of the class [.!?]
Punctuation == {".", "!", "?"}

\* a word of digits, a filler word, and the words of the two texts
\* postProcessSummary puts in
NumberWord == "11"
FillerWords == {"um"}
ShitpostPrefix ==
  <<"This", Blank, "content", Blank, "is", Blank, "basically", Blank, "saying:", Blank>>
Apology ==
  <<"Unable", Blank, "to", Blank, "generate", Blank, "a", Blank, "clear", Blank,
    "summary", ".", Blank, "The", Blank, "content", Blank, "may", Blank, "be", Blank,
    "too", Blank, "complex", Blank, "or", Blank, "unclear", ".">>

\* the number of characters of a token
CharCount(tok) ==
  CASE tok \in {"is", "Is", "um", "to", "be", "or", NumberWord} -> 2
    [] tok \in Vocabulary \cup {"Cat", "And", "may", "too"} -> 3
    [] tok = "This" -> 4
    [] tok = "clear" -> 5
    [] tok = "Unable" -> 6
    [] tok \in {"content", "saying:", "complex", "summary", "unclear"} -> 7
    [] tok = "generate" -> 8
    [] tok = "basically" -> 9
    [] OTHER -> 1

RECURSIVE Length(_)
\* String.prototype.length
Length(s) == IF s = << >> THEN 0 ELSE CharCount(Head(s)) + Length(Tail(s))

RECURSIVE Split(_, _)
\* s.split(/[sep]+/): the pieces between the maximal runs of separators
Split(s, sep) ==
  IF s = << >> THEN << << >> >>
  ELSE LET rest == Split(Tail(s), sep)
       IN  IF Head(s) \in sep
           THEN IF Len(s) > 1 /\ s[2] \in sep THEN rest ELSE << << >> >> \o rest
           ELSE << <<Head(s)>> \o Head(rest) >> \o Tail(rest)

RECURSIVE Runs(_, _)
\* the maximal runs of separators of s, which split(/([sep]+)/) puts between
\* the pieces
Runs(s, sep) ==
  IF s = << >> THEN << >>
  ELSE LET rest == Runs(Tail(s), sep)
       IN  IF Head(s) \in sep
           THEN IF Len(s) > 1 /\ s[2] \in sep
                THEN << <<Head(s)>> \o Head(rest) >> \o Tail(rest)
                ELSE << <<Head(s)>> >> \o rest
           ELSE rest

RECURSIVE Join(_, _)
\* Array.prototype.join
Join(ss, sep) ==
  IF ss = << >> THEN << >>
  ELSE IF Len(ss) = 1 THEN Head(ss)
  ELSE Head(ss) \o sep \o Join(Tail(ss), sep)

\* x.split(/\s+/)
SplitWords(s) == Split(s, {Blank})

\* /[.!?]$/.test(s)
EndsWithPunctuation(s) == s # << >> /\ s[Len(s)] \in Punctuation

RECURSIVE StripEnd(_)
\* s.replace(/[.!?]*$/, '')
StripEnd(s) ==
  IF EndsWithPunctuation(s) THEN StripEnd(SubSeq(s, 1, Len(s) - 1)) ELSE s

\* s.trim().length > 0
NotBlank(s) == Trim(s) # << >>

\* /^[A-Z]/.test(word) || /\b(it|this|...|the|a|an)\b/i.test(word)
IsSubject(word) ==
  /\ word # << >>
  /\ \/ Head(word) \in {"The", "Cat", "Is", "And", "This", "Unable"}
     \/ \E i \in 1..Len(word) : word[i] \in {"The", "This", "a"}

\* /\b(is|are|was|...|supports)\b/i.test(word)
IsVerb(word) == \E i \in 1..Len(word) : word[i] \in {"is", "Is"}

\* breakWords.includes(word.toLowerCase())
IsBreakWord(word) == word \in {<<"and">>, <<"And">>, <<"to">>, <<"or">>}

\* the test that keeps a sentence of sentenceParts
KeepSentence(sentence) ==
  LET words == SplitWords(Trim(sentence))
  IN  /\ NotBlank(sentence)
      /\ Len(words) >= 4
      /\ \/ (\E i \in 1..Len(words) : IsSubject(words[i]))
              /\ (\E i \in 1..Len(words) : IsVerb(words[i]))
         \/ Len(words) >= 6

RECURSIVE CompleteText(_, _, _)
\* completeText after the loop over sentenceParts, from the k-th pair on
CompleteText(sentences, marks, k) ==
  IF k > Len(marks) THEN << >>
  ELSE (IF KeepSentence(sentences[k]) THEN Trim(sentences[k]) \o marks[k] ELSE << >>)
         \o CompleteText(sentences, marks, k + 1)

\* the last sentence is there and has at least three words
LastSentenceComplete(cleanText) ==
  LET sentences == SelectSeq(Split(cleanText, Punctuation), NotBlank)
  IN  /\ sentences # << >>
      /\ Len(SplitWords(Trim(sentences[Len(sentences)]))) >= 3

\* the larger of two numbers: Math.max
Max(a, b) == IF a >= b THEN a ELSE b

\* the part of ensureCompleteSentence that makes a sentence out of a text
\* without complete sentences
MakeSentence(cleanText) ==
  LET words == SplitWords(StripEnd(cleanText))
      n == Len(words)
      \* positions i + 1 of the loop for (i = n - 1; i >= max(3, n - 6); i--)
      \* at which the function returns
      stops == { j \in (Max(3, n - 6) + 1)..n :
                   /\ IsBreakWord(words[j])
                   /\ Len(SplitWords(Join(SubSeq(words, 1, j - 1), <<Blank>>))) >= 3 }
      safeTruncated == Join(SubSeq(words, 1, Max(3, n - 3)), <<Blank>>)
  IN  IF n <= 3 THEN StripEnd(cleanText) \o <<".">>
      ELSE IF stops # {}
      THEN Join(SubSeq(words, 1, (CHOOSE j \in stops : \A k \in stops : k <= j) - 1),
                <<Blank>>) \o <<".">>
      ELSE IF Len(SplitWords(safeTruncated)) >= 3 THEN safeTruncated \o <<".">>
      ELSE StripEnd(cleanText) \o <<".">>

\* ensureCompleteSentence of summarize.js
ensureCompleteSentence(text) ==
  IF text = << >> \/ Trim(text) = << >> THEN text
  ELSE LET cleanText == Trim(text)
           completeText ==
             CompleteText(Split(cleanText, Punctuation), Runs(cleanText, Punctuation), 1)
       IN  IF EndsWithPunctuation(cleanText) /\ LastSentenceComplete(cleanText)
           THEN cleanText
           ELSE IF Length(Trim(completeText)) > 15 THEN Trim(completeText)
           ELSE MakeSentence(cleanText)

\* a word, alone or followed by a full stop
Items == { <<w>> : w \in Vocabulary } \cup { <<w, ".">> : w \in Vocabulary }

\* the texts of at most MaxWords items, one blank between two items
SentenceInputs ==
  { Join(is, <<Blank>>) : is \in UNION { [1..n -> Items] : n \in 0..MaxWords } }

\* ----------------------------------------- the URL pattern, piece by piece
MaxFragments == 3

\* the pieces texts with URLs are made of: the two scheme-and-host prefixes
\* the pattern accepts, the literal /status/, a letter, a comma, two digits, a
\* slash and a blank
UrlPrefixes == {"https://x.com/", "http://twitter.com/"}
StatusPiece == "/status/"
Digits == {"1", "2"}

\* the pieces of the class [^\/\s] of the pattern
UserChars == {"u", ","} \cup Digits

RECURSIVE RunEnd(_, _, _)
\* the position of the last piece of the longest run of pieces of class cls
\* that starts at position i of t; i - 1 if there is none
RunEnd(t, i, cls) ==
  IF i <= Len(t) /\ t[i] \in cls THEN RunEnd(t, i + 1, cls) ELSE i - 1

\* the end of the match of twitterUrlRegex that starts at position i of t;
\* 0 if the pattern does not match there
MatchEnd(t, i) ==
  IF t[i] \notin UrlPrefixes THEN 0
  ELSE LET u == RunEnd(t, i + 1, UserChars)
           d == RunEnd(t, u + 2, Digits)
       IN  IF u >= i + 1 /\ u + 1 <= Len(t) /\ t[u + 1] = StatusPiece /\ d >= u + 2
           THEN d ELSE 0

\* the text of the match between positions i and e: the whole match
MatchedText_path(t, i, e) == SubSeq(t, i + 1, e)
MatchedText(t, i, e) == SubSeq(t, i, e)

RECURSIVE MatchAll(_, _)
\* text.match(twitterUrlRegex) || [], scanning from position i: the matches
\* from left to right, each search starting after the match before
MatchAll(t, i) ==
  IF i > Len(t) THEN << >>
  ELSE LET e == MatchEnd(t, i)
       IN  IF e = 0 THEN MatchAll(t, i + 1)
           ELSE <<MatchedText(t, i, e)>> \o MatchAll(t, e + 1)

\* extractTwitterUrls on a text of pieces
extractTwitterUrlsOf(text) == MatchAll(text, 1)

\* the separators the URLs are joined with: none, a blank, the comma that
\* Array.prototype.join takes by default
JoinSeparators == {<< >>, <<Blank>>, <<",">>}

\* parts of texts: two URLs, a URL without its number, a number, a user
\* name, a path, a blank
Fragments ==
  { <<"https://x.com/", "u", StatusPiece, "1">>,
    <<"http://twitter.com/", "u", "1", StatusPiece, "2", "1">>,
    <<"https://x.com/", "u", StatusPiece>>,
    <<"https://x.com/", StatusPiece, "1">>,
    <<"1">>, <<"u">>, <<StatusPiece, "2">>, <<"/">>, <<Blank>> }

\* the texts of at most MaxFragments fragments, one after the other
UrlInputs ==
  { Join(fs, << >>) : fs \in UNION { [1..n -> Fragments] : n \in 0..MaxFragments } }

\* ------------------------------------------------- texts with indicators
MaxTokens == 4

\* the tokens of such texts: the four that a global indicator matches, the
\* two thread words, a plain word
IndicatorTokens == GlobalIndicatorTokens \cup {"thread:", "thread", "see"}

\* the texts of at most MaxTokens tokens
IndicatorInputs == UNION { [1..n -> IndicatorTokens] : n \in 0..MaxTokens }

\* a fetch of one URL: the handler, the URL, what the two calls meet
FetchInputs ==
  { [v |-> v, url |-> StatusUrl(1), root |-> r, conv |-> c] :
      v \in {"summarize", "server"}, r \in {"ok", "nodata", "404"},
      c \in ConvOutcomes("summarize") \cup ConvOutcomes("server") }

\* ------------------------------------- the helper functions, called alone
\* ------------------------------------------ the loop that rebuilds a text
\* number of sentences of a text handed to the loop
MaxSentences == 2

\* sentences by their shape: the number of words, and whether a word that
\* counts as a subject and one that counts as a verb are among them
SentenceShapes ==
  { [n |-> n, subject |-> sb, verb |-> vb] :
      n \in {3, 4, 6}, sb \in BOOLEAN, vb \in BOOLEAN }

\* the words of a sentence of a shape
ShapeWords(sh) ==
  [i \in 1..sh.n |->
     IF i = 1 /\ sh.subject THEN <<"The">>
     ELSE IF i = 2 /\ sh.verb THEN <<"is">>
     ELSE <<"cat">>]

RECURSIVE ShapeText(_)
\* the text of sentences of the given shapes, each closed by a full stop
ShapeText(shs) ==
  IF shs = << >> THEN << >>
  ELSE Join(ShapeWords(Head(shs)), <<Blank>>) \o <<".">>
         \o (IF Tail(shs) = << >> THEN << >> ELSE <<Blank>> \o ShapeText(Tail(shs)))

\* the inputs of the loop: the file whose loop runs, and the sentences
RebuildInputs ==
  { [v |-> v, shapes |-> shs] :
      v \in {"summarize", "crypto"},
      shs \in UNION { [1..n -> SentenceShapes] : n \in 1..MaxSentences } }

RECURSIVE Interleave(_, _)
\* s.split(/([.!?]+)/): the pieces and the runs of marks between them
Interleave(pieces, marks) ==
  IF marks = << >> THEN pieces
  ELSE <<Head(pieces), Head(marks)>> \o Interleave(Tail(pieces), Tail(marks))

\* sentenceParts of summarize.js; sentences of crypto-explain.js, which drops
\* the blank pieces
SentenceParts(v, cleanText) ==
  LET parts == Interleave(Split(cleanText, Punctuation), Runs(cleanText, Punctuation))
  IN  IF v = "crypto" THEN SelectSeq(parts, NotBlank) ELSE parts

\* KeepPart keeping a sentence of six words wherever it stands
KeepPart_anySix(v, sentence, completeText) == KeepSentence(sentence)

\* the test of the loop on a sentence, completeText being what the loop has
\* kept so far: summarize.js keeps a sentence of six words, crypto-explain.js
\* only while nothing has been kept
KeepPart(v, sentence, completeText) ==
  IF v = "crypto"
  THEN LET words == SplitWords(Trim(sentence))
       IN  /\ NotBlank(sentence)
           /\ Len(words) >= 4
           /\ \/ (\E i \in 1..Len(words) : IsSubject(words[i]))
                   /\ (\E i \in 1..Len(words) : IsVerb(words[i]))
              \/ completeText = << >> /\ Len(words) >= 6
  ELSE KeepSentence(sentence)

RECURSIVE Rebuild(_, _, _, _)
\* for (let i = 0; i < parts.length - 1; i += 2), from the part with index i
\* on: the text kept, and the indexes of the parts kept
Rebuild(v, parts, i, acc) ==
  IF i >= Len(parts) THEN acc
  ELSE LET sentence == parts[i]
           punctuation == parts[i + 1]
           keep == /\ \E k \in 1..Len(punctuation) : punctuation[k] \in Punctuation
                   /\ KeepPart(v, sentence, acc.text)
       IN  Rebuild(v, parts, i + 2,
                   IF keep
                   THEN [text |-> acc.text
                                    \o (IF v = "crypto" THEN sentence ELSE Trim(sentence))
                                    \o punctuation,
                         kept |-> acc.kept \cup {(i + 1) \div 2}]
                   ELSE acc)

\* the loop on the sentences of an input
rebuildSentences(x) ==
  Rebuild(x.v, SentenceParts(x.v, Trim(ShapeText(x.shapes))), 1,
          [text |-> << >>, kept |-> {}])

\* ------------------------------------------------- postProcessSummary
\* /[a-zA-Z]/ matches: some token has a letter
HasLetter(s) ==
  \E i \in 1..Len(s) : s[i] \notin ({Blank, NumberWord, ",", "/"} \cup Punctuation)

RECURSIVE DropLeadingNonWord(_)
\* s.replace(/^[^\w]*/, '')
DropLeadingNonWord(s) ==
  IF s # << >> /\ Head(s) \in ({Blank, ",", "/"} \cup Punctuation)
  THEN DropLeadingNonWord(Tail(s)) ELSE s

RECURSIVE CollapseBlanks(_)
\* s.replace(/\s+/g, ' ')
CollapseBlanks(s) ==
  IF Len(s) < 2 THEN s
  ELSE IF Head(s) = Blank /\ s[2] = Blank THEN CollapseBlanks(Tail(s))
  ELSE <<Head(s)>> \o CollapseBlanks(Tail(s))

\* words that begin with a small letter
LowerCaseWords == {"cat", "is", "and", "um"}

RECURSIVE SpaceAfterMark(_)
\* s.replace(/([.!?])\s*([a-z])/g, '$1 $2')
SpaceAfterMark(s) ==
  IF Len(s) < 2 THEN s
  ELSE IF Head(s) \in Punctuation /\ s[2] \in LowerCaseWords
  THEN <<Head(s), Blank>> \o SpaceAfterMark(Tail(s))
  ELSE <<Head(s)>> \o SpaceAfterMark(Tail(s))

\* word.charAt(0).toUpperCase() + word.slice(1)
Capitalize(tok) ==
  CASE tok = "cat" -> "Cat"
    [] tok = "is" -> "Is"
    [] tok = "and" -> "And"
    [] OTHER -> tok

\* postProcessSummary: the filler words and the leading non-word characters
\* go, white space is put in order, the first letter becomes a capital, the
\* tone shitpost puts its prefix before a short text, and a text that is
\* short or has no letter is replaced
postProcessSummary(text, tone) ==
  LET unfilled == SelectSeq(text, LAMBDA t : t \notin FillerWords)
      spaced == Trim(SpaceAfterMark(CollapseBlanks(DropLeadingNonWord(unfilled))))
      capital == IF spaced = << >> THEN spaced
                 ELSE <<Capitalize(Head(spaced))>> \o Tail(spaced)
      toned == IF tone = "shitpost" /\ (Length(capital) < 20 \/ ~HasLetter(capital))
               THEN ShitpostPrefix \o capital ELSE capital
  IN  IF Length(toned) < 10 \/ ~HasLetter(toned) THEN Apology ELSE toned

\* the summary the handler of summarize.js returns for the content of the
\* LLM's message, with its status
finalSummary(x) ==
  LET trimmed == Trim(x.content)
  IN  IF trimmed = << >> THEN [status |-> 500, summary |-> << >>]
      ELSE [status |-> 200,
            summary |-> ensureCompleteSentence(postProcessSummary(trimmed, x.tone))]

\* pieces of the LLM's message: sentences with and without letters, closed
\* and open
SummaryPieces ==
  { <<"The", Blank, "cat", ".">>,
    <<NumberWord, Blank, NumberWord, Blank, NumberWord, Blank, NumberWord, Blank,
      NumberWord, Blank, NumberWord, ".">>,
    <<"um", Blank, "cat", Blank, "is", Blank, "cat", "!">>,
    <<"cat">>,
    <<NumberWord>> }

\* the contents and tones the handler is given
SummaryInputs ==
  { [tone |-> t, content |-> Join(ps, <<Blank>>)] :
      t \in {"simple", "professional", "shitpost"},
      ps \in UNION { [1..n -> SummaryPieces] : n \in 0..MaxSentences } }

HelperFunctions ==
  {"ensureCompleteSentence", "extractTwitterUrls", "detectTwitterContent",
   "fetchTwitterContent", "rebuildSentences", "finalSummary"}

\* the arguments a helper function is called with
HelperInputs(f) ==
  CASE f = "ensureCompleteSentence" -> SentenceInputs
    [] f = "extractTwitterUrls" -> UrlInputs
    [] f = "detectTwitterContent" -> IndicatorInputs
    [] f = "fetchTwitterContent" ->
         { x \in FetchInputs : x.conv \in ConvOutcomes(x.v) }
    [] f = "rebuildSentences" -> RebuildInputs
    [] f = "finalSummary" -> SummaryInputs

\* the result of helper function f on the text x
Apply(f, x) ==
  CASE f = "ensureCompleteSentence" -> ensureCompleteSentence(x)
    [] f = "extractTwitterUrls" -> extractTwitterUrlsOf(x)
    [] f = "detectTwitterContent" -> detectTwitterContent(x)
    [] f = "fetchTwitterContent" -> FetchResult(x.v, x.url, x.root, x.conv)
    [] f = "rebuildSentences" -> rebuildSentences(x)
    [] f = "finalSummary" -> finalSummary(x)

\* how a result is handed to the function again: a text as it is, a list of
\* URLs joined with one of the separators, other results not at all
HandBack(f) ==
  CASE f = "ensureCompleteSentence" -> {out[1]}
    [] f = "extractTwitterUrls" -> {Join(out[1], sep) : sep \in JoinSeparators}
    [] f = "detectTwitterContent" -> {}
    [] f = "fetchTwitterContent" -> {}
    [] f = "rebuildSentences" -> {}
    [] f = "finalSummary" -> {}

\* no request is being handled; one helper function is about to be called
HelperInit ==
  /\ variant = "summarize"
  /\ req = BareRequest("OPTIONS", "missing")
  /\ pc = "helper"
  /\ InitLocals
  /\ fn \in HelperFunctions
  /\ arg \in HelperInputs(fn)
  /\ out = << >>
  /\ NoJobs

\* the first call: the function on its argument
CallHelper ==
  /\ pc = "helper"
  /\ out = << >>
  /\ out' = <<Apply(fn, arg)>>
  /\ UNCHANGED <<reqVars, pc, textVars, fetchVars, callVars, resVars, logVars, fn, arg, jobVars>>

\* the second call: the function on its own result
CallHelperAgain ==
  /\ pc = "helper"
  /\ Len(out) = 1
  /\ \E x \in HandBack(fn) : out' = Append(out, Apply(fn, x))
  /\ UNCHANGED <<reqVars, pc, textVars, fetchVars, callVars, resVars, logVars, fn, arg, jobVars>>

HelperNext == CallHelper \/ CallHelperAgain

HelperSpec == HelperInit /\ [][HelperNext]_vars

\* ====================================================== concurrent calls
\* Calls of the analytics functions that run at the same time: each call is a
\* job that advances from one await to the next, and the jobs interleave at
\* their awaits.  The jobs of analytics.js share the in-memory store
\* analyticsData; the jobs of the spreadsheet-backed module
\* (analytics-dashboard.js, lines 171-483) share the spreadsheet.

\* number of jobs that run at the same time
MaxJobs == 2

\* sheetConfigs, in the order of the loop of initializeSheets
SheetNames == <<"ToneUsage", "SiteVisits", "DailySummary", "SummarizationLogs">>

\* rows: the header row written from config.headers, and a data row with its
\* key (the tone, or the date) and its count
HeaderRow == [key |-> "header", count |-> 0]
DataRow(k, n) == [key |-> k, count |-> n]

\* the spreadsheet with every sheet holding the rows rs
Book(rs) == [s \in {SheetNames[i] : i \in 1..Len(SheetNames)} |-> rs]

\* the jobs of the spreadsheet-backed module and those of analytics.js
SheetJobKinds == {"init-sheets", "logToneUsage", "logSiteVisit"}
MemoryJobKinds == {"memLogSiteVisit", "memLogToneUsage", "memLogSummarization",
                   "memLogSummarizationFailed"}

\* a job that has not started
IdleJob(k) ==
  [kind |-> k, pc |-> "idle", ix |-> 0, ret |-> "none", seen |-> << >>,
   failed |-> 0, status |-> 0]

\* the sheet a log function reads and updates, and the key of its row
LogSheet(k) == IF k = "logToneUsage" THEN "ToneUsage" ELSE "DailySummary"
LogKey(k) == IF k = "logToneUsage" THEN "simple" ELSE "2024-01-01"

\* values.update of the row with index i: the row is replaced, or created
\* when the sheet ends before it
UpdateRow(rows, i, row) ==
  IF i <= Len(rows) THEN [rows EXCEPT ![i] = row] ELSE Append(rows, row)

\* for (let i = 1; i < rows.length; i++) if (rows[i][0] === key): the sheet
\* index of the first match after the first row, 0 when there is none
ExistingRowIndex(rows, k) ==
  IF \E i \in 2..Len(rows) : rows[i].key = k
  THEN CHOOSE i \in 2..Len(rows) :
         rows[i].key = k /\ \A j \in 2..(i - 1) : rows[j].key # k
  ELSE 0

\* number of calls of the spreadsheet API that reject while the jobs run
MaxFaults == 1

RECURSIVE Faults(_, _)
\* the calls that have rejected so far, in the jobs up to the n-th
Faults(js, n) == IF n = 0 THEN 0 ELSE js[n].failed + Faults(js, n - 1)

\* a call of the spreadsheet API succeeds or, while rejections are left,
\* rejects
ApiOutcomes ==
  IF Faults(procs, Len(procs)) < MaxFaults THEN {"ok", "error"} ELSE {"ok"}

\* the job after one of its calls has rejected
Failed(j) == [j EXCEPT !.failed = j.failed + 1]

\* initializeSheets goes on to the next sheet, or returns to its caller
NextSheet(j) ==
  IF j.ix = Len(SheetNames) THEN [j EXCEPT !.pc = j.ret]
  ELSE [j EXCEPT !.ix = j.ix + 1, !.pc = "iget"]

\* the modules require('./analytics') of init-sheets.js can stand for: the
\* file analytics.js, which exports no initializeSheets, and the module text
\* with initializeSheets that src/ holds at analytics-dashboard.js:171-483
AnalyticsModules(k) ==
  IF k = "init-sheets" THEN {"analytics.js", "analytics-dashboard.js"}
  ELSE {"analytics.js"}

\* the synchronous start of a job.  The functions of analytics.js update the
\* store before their first await; the others await the client first; the
\* init-sheets handler calls initializeSheets, and answers 500 from its catch
\* when the name is not a function
StartJob ==
  /\ pc = "jobs"
  /\ \E p \in DOMAIN procs :
       /\ procs[p].pc = "idle"
       /\ LET k == procs[p].kind
          IN  /\ \E m \in AnalyticsModules(k) :
                   procs' = [procs EXCEPT ![p] =
                     CASE k = "init-sheets" /\ m = "analytics.js" ->
                            [@ EXCEPT !.pc = "done", !.status = 500]
                       [] k = "init-sheets" /\ m # "analytics.js" ->
                            [@ EXCEPT !.pc = "iclient", !.ret = "respond"]
                       [] k \in MemoryJobKinds -> [@ EXCEPT !.pc = "mappend"]
                       [] OTHER -> [@ EXCEPT !.pc = "client"]]
              /\ analyticsData' =
                   CASE k = "memLogSiteVisit" -> PushVisit(analyticsData, "Chrome")
                     [] k = "memLogToneUsage" -> CountTone(analyticsData, Str(<<"simple">>))
                     [] k = "memLogSummarization" ->
                          PushLog(analyticsData,
                                  LogEntry(Str(<<"simple">>), Str(<<"1 line">>),
                                           "general_text", TRUE))
                     [] k = "memLogSummarizationFailed" ->
                          PushLog(analyticsData,
                                  LogEntry(Str(<<"unknown">>), Str(<<"unknown">>),
                                           "unknown", FALSE))
                     [] OTHER -> analyticsData
  /\ UNCHANGED <<reqVars, pc, textVars, fetchVars, callVars, resVars, sheetRows,
                 logOutcomes, pureVars, race, book, overwritten>>

\* the rest of a function of analytics.js: the client, the append, and the
\* catch around it
MemoryAppend ==
  /\ pc = "jobs"
  /\ \E p \in DOMAIN procs, o \in SheetOutcomes :
       /\ procs[p].pc = "mappend"
       /\ procs' = [procs EXCEPT ![p].pc = IF LogPromise(o) = "pending" THEN "pending"
                                                                         ELSE "done",
                                 ![p].failed = IF o = "rejected" THEN 1 ELSE 0]
       /\ sheetRows' = sheetRows \o Appended(o, ToneRow(Str(<<procs[p].kind>>)))
  /\ UNCHANGED <<reqVars, pc, textVars, fetchVars, callVars, resVars, analyticsData,
                 logOutcomes, pureVars, race, book, overwritten>>

\* await getGoogleSheetsClient() of initializeSheets: its catch rethrows, and
\* the outer catch of initializeSheets swallows the error
InitClient ==
  /\ pc = "jobs"
  /\ \E p \in DOMAIN procs, o \in ApiOutcomes :
       /\ procs[p].pc = "iclient"
       /\ procs' = [procs EXCEPT ![p] =
            IF o = "ok" THEN [@ EXCEPT !.ix = 1, !.pc = "iget"]
            ELSE Failed([@ EXCEPT !.pc = procs[p].ret])]
  /\ UNCHANGED <<reqVars, pc, textVars, fetchVars, callVars, resVars, logVars,
                 pureVars, race, book, overwritten>>

\* values.get of the first row of the current sheet: an empty answer leads to
\* the update, a rejection to the next sheet
InitGet ==
  /\ pc = "jobs"
  /\ \E p \in DOMAIN procs, o \in ApiOutcomes :
       /\ procs[p].pc = "iget"
       /\ procs' = [procs EXCEPT ![p] =
            IF o = "error" THEN NextSheet(Failed(@))
            ELSE IF book[SheetNames[procs[p].ix]] = << >> THEN [@ EXCEPT !.pc = "iput"]
            ELSE NextSheet(@)]
  /\ UNCHANGED <<reqVars, pc, textVars, fetchVars, callVars, resVars, logVars,
                 pureVars, race, book, overwritten>>

\* values.update of A1 with config.headers
InitPut ==
  /\ pc = "jobs"
  /\ \E p \in DOMAIN procs, o \in ApiOutcomes :
       LET s == SheetNames[procs[p].ix]
       IN  /\ procs[p].pc = "iput"
           /\ procs' = [procs EXCEPT ![p] =
                IF o = "ok" THEN NextSheet(@) ELSE NextSheet(Failed(@))]
           /\ book' = IF o = "ok" THEN [book EXCEPT ![s] = UpdateRow(@, 1, HeaderRow)]
                                  ELSE book
           /\ overwritten' =
                IF o = "ok" /\ book[s] # << >>
                THEN overwritten \cup {[sheet |-> s, row |-> book[s][1]]}
                ELSE overwritten
  /\ UNCHANGED <<reqVars, pc, textVars, fetchVars, callVars, resVars, logVars,
                 pureVars, race>>

\* the status the init-sheets handler answers with once initializeSheets has
\* returned: the function has caught its errors, and the handler's try block
\* completes
InitStatus(j) == 200

\* the return of the init-sheets handler after await initializeSheets()
InitRespond ==
  /\ pc = "jobs"
  /\ \E p \in DOMAIN procs :
       /\ procs[p].pc = "respond"
       /\ procs' = [procs EXCEPT ![p].pc = "done", ![p].status = InitStatus(procs[p])]
  /\ UNCHANGED <<reqVars, pc, textVars, fetchVars, callVars, resVars, logVars,
                 pureVars, race, book, overwritten>>

\* await getGoogleSheetsClient() of logToneUsage and logSiteVisit: a throw
\* ends the function in its outer catch
LogClient ==
  /\ pc = "jobs"
  /\ \E p \in DOMAIN procs, o \in ApiOutcomes :
       /\ procs[p].pc = "client"
       /\ procs' = [procs EXCEPT ![p] =
            IF o = "error" THEN Failed([@ EXCEPT !.pc = "done"])
            ELSE [@ EXCEPT !.pc = IF procs[p].kind = "logSiteVisit" THEN "append"
                                                                     ELSE "read"]]
  /\ UNCHANGED <<reqVars, pc, textVars, fetchVars, callVars, resVars, logVars,
                 pureVars, race, book, overwritten>>

\* values.append of the visit to SiteVisits; after a rejection the function
\* calls initializeSheets and appends once more, and a second rejection ends
\* it in its outer catch
VisitAppend ==
  /\ pc = "jobs"
  /\ \E p \in DOMAIN procs, o \in ApiOutcomes :
       /\ procs[p].pc \in {"append", "reappend"}
       /\ procs' = [procs EXCEPT ![p] =
            IF o = "ok" THEN [@ EXCEPT !.pc = "read"]
            ELSE IF procs[p].pc = "append"
            THEN Failed([@ EXCEPT !.pc = "iclient", !.ret = "reappend"])
            ELSE Failed([@ EXCEPT !.pc = "done"])]
       /\ book' = IF o = "ok"
                  THEN [book EXCEPT !["SiteVisits"] = Append(@, DataRow("visit", 1))]
                  ELSE book
  /\ UNCHANGED <<reqVars, pc, textVars, fetchVars, callVars, resVars, logVars,
                 pureVars, race, overwritten>>

\* values.get of the rows of ToneUsage or DailySummary; after a rejection
\* the function calls initializeSheets and reads once more
LogRead ==
  /\ pc = "jobs"
  /\ \E p \in DOMAIN procs, o \in ApiOutcomes :
       /\ procs[p].pc \in {"read", "reread"}
       /\ procs' = [procs EXCEPT ![p] =
            IF o = "ok"
            THEN [@ EXCEPT !.pc = "write", !.seen = book[LogSheet(procs[p].kind)]]
            ELSE IF procs[p].pc = "read"
            THEN Failed([@ EXCEPT !.pc = "iclient", !.ret = "reread"])
            ELSE Failed([@ EXCEPT !.pc = "done"])]
  /\ UNCHANGED <<reqVars, pc, textVars, fetchVars, callVars, resVars, logVars,
                 pureVars, race, book, overwritten>>

\* the write that follows the search in the rows read: values.update of the
\* count of the row found, to the count read plus one, or values.append of a
\* row with count 1
LogWrite ==
  /\ pc = "jobs"
  /\ \E p \in DOMAIN procs, o \in ApiOutcomes :
       LET j == procs[p]
           s == LogSheet(j.kind)
           i == ExistingRowIndex(j.seen, LogKey(j.kind))
       IN  /\ j.pc = "write"
           /\ procs' = [procs EXCEPT ![p] =
                IF o = "ok" THEN [@ EXCEPT !.pc = "done"]
                ELSE Failed([@ EXCEPT !.pc = "done"])]
           /\ book' =
                IF o = "error" THEN book
                ELSE IF i > 0
                THEN [book EXCEPT ![s] =
                        UpdateRow(@, i, DataRow((IF i <= Len(@) THEN @[i].key
                                                               ELSE LogKey(j.kind)),
                                                j.seen[i].count + 1))]
                ELSE [book EXCEPT ![s] = Append(@, DataRow(LogKey(j.kind), 1))]
  /\ UNCHANGED <<reqVars, pc, textVars, fetchVars, callVars, resVars, logVars,
                 pureVars, race, overwritten>>

\* the kinds of jobs in one fixed order
KindOrder ==
  <<"init-sheets", "logToneUsage", "logSiteVisit", "memLogSiteVisit", "memLogToneUsage",
    "memLogSummarization", "memLogSummarizationFailed">>
KindRank(k) == CHOOSE i \in 1..Len(KindOrder) : KindOrder[i] = k

\* the jobs that start together: all of the spreadsheet-backed module, or
\* all of analytics.js; which job comes first in the list does not matter
JobSets ==
  { js \in [1..MaxJobs -> {IdleJob(k) : k \in SheetJobKinds}]
             \cup [1..MaxJobs -> {IdleJob(k) : k \in MemoryJobKinds}] :
      \A i \in 1..(MaxJobs - 1) : KindRank(js[i].kind) <= KindRank(js[i + 1].kind) }

\* no request is being handled; the jobs are about to start, on a spreadsheet
\* whose sheets are all empty or all hold their header row
JobInit ==
  /\ variant = "summarize"
  /\ req = BareRequest("OPTIONS", "missing")
  /\ pc = "jobs"
  /\ InitLocals
  /\ fn = "none"
  /\ arg = << >>
  /\ out = << >>
  /\ procs \in JobSets
  /\ book \in {Book(<< >>), Book(<<HeaderRow>>)}
  /\ overwritten = {}
  /\ race = NoRace

JobNext ==
  \/ StartJob
  \/ MemoryAppend
  \/ InitClient
  \/ InitGet
  \/ InitPut
  \/ InitRespond
  \/ LogClient
  \/ VisitAppend
  \/ LogRead
  \/ LogWrite

JobSpec == JobInit /\ [][JobNext]_vars

\* ============================================== makeApiCallWithRetry
\* One call of makeApiCallWithRetry(retries) with its POSTs in flight.  An
\* attempt issues a POST and arms a timer; the POST settles and the timer
\* fires in either order, for the attempt in progress and for earlier ones.

\* the largest argument retries the function is called with
MaxAttempts == 3

\* what a POST settles with
RaceOutcomes ==
  { HttpOutcome(200, << >>, TRUE, "good"),
    HttpOutcome(500, <<"secret">>, TRUE, "none"),
    HttpOutcome(429, <<"rate limit">>, TRUE, "none"),
    NetErrOutcome("ECONNRESET", <<"socket hang up">>),
    NetErrOutcome("ENOTFOUND", <<"request failed">>) }

\* the POST and the timer of an attempt that has just begun
NewCall ==
  [settled |-> FALSE, outcome |-> << >>, timer |-> "armed", won |-> "none",
   aborted |-> FALSE]

\* setTimeout(() => controller.abort(), 20000) of server.ts; the timers of the
\* Netlify functions reject a promise of their own and abort nothing
TimerAborts_always(v) == TRUE
TimerAborts(v) == v = "server"

\* the value await hands back for attempt a: the rejection of the timer, or
\* the settlement of the POST of this attempt
RaceResult_lateFirst(calls, a) ==
  IF \E i \in 1..a : calls[i].settled /\ ~calls[i].aborted
  THEN LET i == CHOOSE i \in 1..a :
                  /\ calls[i].settled /\ ~calls[i].aborted
                  /\ \A j \in 1..(i - 1) : ~(calls[j].settled /\ ~calls[j].aborted)
       IN  [from |-> i, o |-> calls[i].outcome[1]]
  ELSE [from |-> 0, o |-> TimeoutOutcome]
RaceResult(calls, a) ==
  IF calls[a].won = "timer" THEN [from |-> 0, o |-> TimeoutOutcome]
  ELSE [from |-> a, o |-> calls[a].outcome[1]]

\* the head of the for loop: the POST and the timer of the next attempt, or
\* the end of the loop
StartAttempt ==
  /\ pc = "race"
  /\ race.at = "loop"
  /\ race' =
       IF LoopCondition(variant, race.attempt)
       THEN [race EXCEPT !.calls = Append(race.calls, NewCall), !.at = "await"]
       ELSE IF variant = "server"
       THEN [race EXCEPT !.at = "thrown",
                         !.result = [kind |-> "throw", from |-> 0, value |-> << >>]]
       ELSE [race EXCEPT !.at = "returned",
                         !.result = [kind |-> "undefined", from |-> 0, value |-> << >>]]
  /\ UNCHANGED <<reqVars, pc, textVars, fetchVars, callVars, resVars, logVars,
                 pureVars, procs, book, overwritten>>

\* a POST settles: it wins the race of its attempt when the timer has not
\* fired; server.ts clears the timer once it holds a response
CallSettles ==
  /\ pc = "race"
  /\ \E i \in DOMAIN race.calls, o \in RaceOutcomes :
       /\ ~race.calls[i].settled
       /\ race' = [race EXCEPT !.calls[i] =
            [settled |-> TRUE, outcome |-> <<o>>,
             timer |-> IF variant = "server" /\ o.kind = "http"
                          /\ race.calls[i].timer = "armed"
                       THEN "cleared" ELSE race.calls[i].timer,
             won |-> IF race.calls[i].won = "none" THEN "call" ELSE race.calls[i].won,
             aborted |-> FALSE]]
  /\ UNCHANGED <<reqVars, pc, textVars, fetchVars, callVars, resVars, logVars,
                 pureVars, procs, book, overwritten>>

\* a timer fires: it wins the race of its attempt when the POST has not
\* settled, and in server.ts it aborts the POST
TimerFires ==
  /\ pc = "race"
  /\ \E i \in DOMAIN race.calls :
       LET c == race.calls[i]
       IN  /\ c.timer = "armed"
           /\ race' = [race EXCEPT !.calls[i] =
                IF c.settled THEN [c EXCEPT !.timer = "fired"]
                ELSE IF TimerAborts(variant)
                THEN [c EXCEPT !.timer = "fired", !.won = "timer", !.settled = TRUE,
                               !.aborted = TRUE]
                ELSE [c EXCEPT !.timer = "fired", !.won = "timer"]]
  /\ UNCHANGED <<reqVars, pc, textVars, fetchVars, callVars, resVars, logVars,
                 pureVars, procs, book, overwritten>>

\* the function resumes after its await: the rest of the iteration, with the
\* pause before the next one
Resume ==
  /\ pc = "race"
  /\ race.at = "await"
  /\ race.calls[race.attempt].won # "none"
  /\ LET w == RaceResult(race.calls, race.attempt)
         r == AttemptResult(variant, race.attempt, w.o)
     IN  race' =
           CASE r.kind = "continue" ->
                  [race EXCEPT !.attempt = race.attempt + 1, !.at = "loop"]
             [] r.kind = "return" ->
                  [race EXCEPT !.at = "returned",
                               !.result = [kind |-> "return", from |-> w.from,
                                           value |-> <<w.o>>]]
             [] r.kind = "throw" ->
                  [race EXCEPT !.at = "thrown",
                               !.result = [kind |-> "throw", from |-> w.from,
                                           value |-> << >>]]
  /\ UNCHANGED <<reqVars, pc, textVars, fetchVars, callVars, resVars, logVars,
                 pureVars, procs, book, overwritten>>

\* the function is called with an argument, in one of the three files
RaceInit ==
  /\ variant \in {"summarize", "crypto", "server"}
  /\ req = BareRequest("POST", "missing")
  /\ pc = "race"
  /\ InitLocals
  /\ fn = "none"
  /\ arg = << >>
  /\ out = << >>
  /\ procs = << >>
  /\ book = << >>
  /\ overwritten = {}
  /\ \E n \in 0..MaxAttempts :
       race = [NoRace EXCEPT !.given = TRUE, !.retries = n, !.attempt = 1, !.at = "loop"]

RaceNext == StartAttempt \/ CallSettles \/ TimerFires \/ Resume

RetrySpec == RaceInit /\ [][RaceNext]_vars

\* ============================================================== claims
\* every entry of the attempt log is x, and there is one
AllAre(log, x) == log # << >> /\ \A i \in 1..Len(log) : log[i] = x

\* makeApiCallWithRetry has returned or thrown
CallerDone == pc \in {"parse", "logOk", "catch", "logFail", "blocked", "done"}

\* the log of N - 1 answers 500 followed by an answer 200
FailThenSucceed(n) == [i \in 1..n |-> IF i < n THEN 500 ELSE 200]

\* C1: if the upstream answers 500 on attempts 1..N-1 and 200 on attempt N,
\* for an N up to the number of attempts of the variant, the caller returns
\* the response of attempt N and has issued exactly N POSTs.
C1_RetryUntilSuccess ==
  \A n \in 1..3 :
    (n <= (IF variant = "server" THEN 3 ELSE 2)
       /\ Len(attemptLog) >= n /\ SubSeq(attemptLog, 1, n) = FailThenSucceed(n))
    => /\ llmCalls = n
       /\ Len(attemptLog) = n
       /\ CallerDone
       /\ llmRes.kind = "http" /\ llmRes.status = 200

\* the Express caller has met 500, 500, 200 and has returned the third answer
C1_Witness ==
  variant = "server" /\ attemptLog = <<500, 500, 200>> /\ pc = "parse" /\ llmCalls = 3

\* C2: one call of makeApiCallWithRetry never issues more POSTs than its
\* number of attempts: 2 in the Netlify handlers, 3 in the Express server.
C2_AttemptCeiling ==
  llmCalls <= (IF variant = "server" THEN 3 ELSE 2)

\* a Netlify caller has used both of its attempts and has thrown
C2_Witness ==
  variant = "summarize" /\ llmCalls = 2 /\ attemptLog = <<0, -1>> /\ pc = "catch"

UpstreamTokens == UNION { { t[i] : i \in 1..Len(t) } : t \in ErrTexts }

\* C4 as stated: when the upstream answers 429 or 402, the body the summarize
\* handler or the crypto-explain handler sends carries the maintenance message
\* only and nothing of the upstream's error text.
C4_Original ==
  (variant \in {"summarize", "crypto"} /\ pc = "done" /\ attemptLog # << >>
     /\ attemptLog[Len(attemptLog)] \in {429, 402})
  => /\ response.text = MaintenanceMessage
     /\ \A tok \in UpstreamTokens : ~Includes(response.text, tok)

\* C5 as stated: an attempt that receives a 4xx status other than 429 and 402
\* is the last attempt of the caller, whatever the error body says.
C5_Original ==
  variant \in {"summarize", "crypto"} =>
    \A i \in 1..Len(attemptLog) :
      attemptLog[i] = 400 => (i = Len(attemptLog) /\ CallerDone)

\* C6: when every attempt loses its race against the timer, a Netlify caller
\* makes all of its 2 attempts with a pause of 300 ms between them and throws
\* the timeout error, and the summarize handler answers 408 with the advice to
\* try again.
C6_TimeoutExhausts ==
  (variant \in {"summarize", "crypto"} /\ AllAre(attemptLog, 0) /\ CallerDone) =>
    /\ llmCalls = 2
    /\ delays = <<300>>
    /\ err = Err("Error", <<"Request timeout">>, "none")
    /\ (variant = "summarize" /\ pc = "done") =>
          /\ response.status = 408
          /\ response.kind = "error"
          /\ Includes(response.text, "Try using shorter content or try again in a moment.")

\* the summarize handler has answered a request both of whose attempts timed out
C6_Witness ==
  variant = "summarize" /\ attemptLog = <<0, 0>> /\ pc = "done" /\ response.status = 408

\* a field that is absent, empty or made of blanks only
NoContent(x) == x.t = "undefined" \/ (x.t = "string" /\ \A i \in 1..Len(x.s) : x.s[i] = Blank)

\* C7 as stated: a POST to a summarize handler in which threadUrl and rawText
\* are each absent, empty or whitespace-only is answered 400 with an error.
C7_Original ==
  (variant \in {"summarize", "server"} /\ req.method = "POST" /\ req.body = "json"
     /\ NoContent(req.threadUrl) /\ NoContent(req.rawText) /\ pc # "start")
  => (pc = "done" /\ response.status = 400 /\ response.kind = "error")

\* a threadUrl none of whose tokens is a status URL with a numeric identifier
NoNumericStatus(x) ==
  x.t = "undefined" \/ \A i \in 1..Len(x.s) : \A n \in 1..(MaxUrls + 1) : x.s[i] # StatusUrl(n)

\* C8: a summarize request whose threadUrl has no numeric status identifier
\* and that carries no rawText is answered 400, and no call to the social
\* platform API or to the LLM API is ever issued for it.
C8_NoUpstreamCall ==
  (variant = "summarize" /\ req.method = "POST" /\ req.body = "json"
     /\ NoNumericStatus(req.threadUrl) /\ req.rawText = Undef)
  => /\ twitterCalls = 0
     /\ llmCalls = 0
     /\ pc \in {"start", "done"}
     /\ pc = "done" => (response.status = 400 /\ response.kind = "error")

\* the request with the threadUrl .../status/notanumber has been answered
C8_Witness ==
  /\ variant = "summarize"
  /\ req.threadUrl = Str(<<"https://x.com/u/status/notanumber">>)
  /\ req.rawText = Undef
  /\ pc = "done"
  /\ response.status = 400

\* a request with a malformed body or without a required field
Malformed ==
  /\ req.method = "POST"
  /\ \/ variant \in {"summarize", "crypto"} /\ req.body \in {"missing", "invalid"}
     \/ variant = "summarize" /\ req.body = "json"
          /\ (req.tone = Undef \/ req.length = Undef)
     \/ variant = "crypto" /\ req.body = "json" /\ req.term.t = "number"

\* C9 as stated: a request with a malformed body or a missing required field
\* is answered 400 with an error message.
C9_Original ==
  (Malformed /\ pc # "start") =>
    (pc = "done" /\ response.status = 400 /\ response.kind = "error")

\* C10: the response of the summarize handler is the one its primary outcome
\* determines (200 with the summary; or the answer built from the error),
\* however the analytics writes of the request ended.
C10_AnalyticsNeverChangesResponse ==
  (variant = "summarize" /\ pc = "done" /\ logOutcomes # << >>) =>
    response = IF err = NoErr THEN Response(variant, 200, "summary", summary)
                              ELSE ErrorResponse(variant, err)

\* a request answered 200 although both of its analytics appends were rejected
C10_Witness ==
  /\ variant = "summarize"
  /\ pc = "done"
  /\ logOutcomes = <<"rejected", "rejected">>
  /\ response.status = 200

\* C11 as stated: the analytics write never blocks the primary response: a
\* summarize handler that has reached its analytics write returns its
\* response, also when that write never completes.
C11_Original ==
  (variant = "summarize" /\ pc \in {"logOk", "logFail"}) ~> (pc = "done")

\* the request has left a success event with its tone, its length and the
\* content type derived for it
SuccessEventRecorded ==
  \E i \in 1..Len(analyticsData.summarizationLogs) :
    analyticsData.summarizationLogs[i] =
      [tone |-> req.tone, length |-> req.length, contentType |-> contentType,
       status |-> "Success"]

C13_Original ==
  (fn = "ensureCompleteSentence" /\ Len(out) = 2) => out[2] = out[1]

\* C14: extracting the URLs of a text, joining them and extracting again
\* yields the same URLs, in the same order, duplicates kept.
C14_ExtractIdempotent ==
  (fn = "extractTwitterUrls" /\ Len(out) = 2) => out[2] = out[1]

\* a text with the same URL twice and another one: all three come back
C14_Witness ==
  /\ fn = "extractTwitterUrls"
  /\ Len(out) = 2
  /\ Len(out[1]) = 3
  /\ out[1][1] = out[1][3]
  /\ out[1][1] # out[1][2]
  /\ out[2] = out[1]

\* the matches of the six indicators in the argument, counted by position:
\* the four global patterns once per occurrence, the two thread patterns
\* once per text
C15_Matches ==
  Cardinality({i \in 1..Len(arg) : arg[i] \in {"1/3", "@elon", "#ai", "[thread-emoji]"}})
    + (IF \E i \in 1..Len(arg) : arg[i] = "thread:" THEN 1 ELSE 0)
    + (IF \E i \in 1..Len(arg) : arg[i] \in {"thread:", "thread"} THEN 1 ELSE 0)

\* C15 as stated: detectTwitterContent answers true exactly when the matches
\* are more than 3.
C15_Original ==
  (fn = "detectTwitterContent" /\ Len(out) = 1) => (out[1] <=> C15_Matches > 3)

\* C15, amended: detectTwitterContent answers true exactly when the matches
\* are more than 2: three or more matches are thread-like, two or fewer not.
C15_Amended ==
  (fn = "detectTwitterContent" /\ Len(out) = 1) => (out[1] <=> C15_Matches > 2)

\* a text with exactly three matches is thread-like
C15_Witness ==
  /\ fn = "detectTwitterContent"
  /\ out = <<TRUE>>
  /\ C15_Matches = 3

\* the tone of the request as the prompt spells it
C16_ToneText ==
  CASE req.tone.t = "string" -> req.tone.s
    [] req.tone.t = "number" -> <<ToString(req.tone.n)>>
    [] OTHER -> <<"undefined">>

\* the request reached a summarize handler with a tone that is none of the
\* five listed ones
C16_UnlistedTone ==
  /\ variant \in {"summarize", "server"}
  /\ req.method = "POST"
  /\ req.body = "json"
  /\ req.tone \notin { [t |-> "string", s |-> <<x>>] :
                         x \in {"shitpost", "infographics", "simple", "professional",
                                "conversational"} }

\* C16: with a tone outside the listed set nothing is thrown before the
\* first call of the LLM, the prompt sent contains the tone as it came, and
\* a request that brings its text is not answered 400.
C16_UnlistedTonePrompt ==
  C16_UnlistedTone =>
    /\ llmCalls = 0 => err.name = "none"
    /\ llmCalls > 0 =>
         \E i \in 1..Len(prompt) :
           /\ i + Len(C16_ToneText) - 1 <= Len(prompt)
           /\ SubSeq(prompt, i, i + Len(C16_ToneText) - 1) = C16_ToneText
    /\ (HasRawText(req) /\ ~IsStatusRequest(req)) => response.status # 400

\* the tone "Simple" is not the listed "simple": the default branch spells it
\* out, and the request is answered 200
C16_Witness ==
  /\ variant = "summarize"
  /\ pc = "done"
  /\ response.status = 200
  /\ prompt = <<"Format as clean, SHORT bullet points.", "Write this as", "bullet list",
                "with", "Simple", "tone", "[baseInstruction]", "CONTENT TO SUMMARIZE:",
                "hello", "world">>

\* C17: once the root message is fetched, the fetch returns a text whatever
\* the conversation call meets; when that call times out, throws, answers a
\* non-success status or returns no message, the text is the root message.
C17_ConversationNeverFatal ==
  (fn = "fetchTwitterContent" /\ Len(out) = 1 /\ arg.root = "ok") =>
    /\ out[1].ok
    /\ out[1].text # << >>
    /\ (arg.conv.kind # "ok" \/ arg.conv.tweets = << >>) =>
         out[1].text = <<"tweet of", arg.url>>

\* the search succeeds with no message: the root message alone comes back
C17_Witness ==
  /\ fn = "fetchTwitterContent"
  /\ arg.root = "ok"
  /\ arg.conv = [kind |-> "ok", tweets |-> << >>]
  /\ out = <<[ok |-> TRUE, text |-> <<"tweet of", "https://x.com/u/status/1">>]>>

\* the URLs pasted into rawText, in their order, and those of them that the
\* handler may fetch: the first two (Netlify) or three (Express)
C18_Pasted == Tail(req.rawText.s)
C18_Prefix ==
  LET limit == IF variant = "server" THEN 3 ELSE 2
  IN  SubSeq(C18_Pasted, 1, IF Len(C18_Pasted) < limit THEN Len(C18_Pasted) ELSE limit)

\* the entries of contents that stand for a fetched URL, and the error block
C18_Successes == SelectSeq(contents, LAMBDA c : c[1] = "--- Content from")
C18_ErrorBlocks == SelectSeq(contents, LAMBDA c : c[1] = "--- Errors fetching some URLs ---")

\* the position of a URL in the prefix
C18_Position(u) == CHOOSE i \in 1..Len(C18_Prefix) : C18_Prefix[i] = u

\* C18: the URLs of a text are fetched one after the other in the order of
\* the text, the first two (Netlify) or three (Express) only; the fetch fails
\* only if every URL failed; otherwise contents holds each success under its
\* header and, exactly when some URL failed, one error block at its end.
C18_BoundedPrefixFetch ==
  fetchMode = "multi" =>
    LET handled == Len(C18_Prefix) - Len(urlQueue)
    IN  /\ handled >= 0
        /\ urlQueue = SubSeq(C18_Prefix, handled + 1, Len(C18_Prefix))
        /\ Len(C18_Successes) + Len(errors) = handled
        /\ twitterCalls <= 2 * handled + (IF pc = "conv" THEN 1 ELSE 0)
        /\ \A i \in 1..Len(C18_Successes) :
              /\ C18_Position(C18_Successes[i][2]) <= handled
              /\ \A j \in 1..Len(C18_Successes) :
                    i < j => C18_Position(C18_Successes[i][2]) < C18_Position(C18_Successes[j][2])
        /\ \A i \in 1..Len(errors) :
              /\ C18_Position(errors[i][1]) <= handled
              /\ \A j \in 1..Len(errors) :
                    i < j => C18_Position(errors[i][1]) < C18_Position(errors[j][1])
              /\ \A j \in 1..Len(C18_Successes) : errors[i][1] # C18_Successes[j][2]
        /\ pc \notin {"root", "conv"} =>
              /\ urlQueue = << >>
              /\ (threadText = req.rawText.s) <=> (C18_Successes = << >>)
              /\ C18_Successes = << >> => contents = << >>
              /\ C18_Successes # << >> =>
                    /\ contents = C18_Successes \o C18_ErrorBlocks
                    /\ Len(C18_ErrorBlocks) = (IF errors = << >> THEN 0 ELSE 1)
                    /\ threadText = req.rawText.s \o <<"--- FETCHED TWITTER CONTENT ---">>
                                       \o JoinTexts(contents)

\* the Express handler gets four URLs and fetches three: the first fails, the
\* second and the third succeed, one error block closes contents
C18_Witness ==
  /\ variant = "server"
  /\ fetchMode = "multi"
  /\ pc = "done"
  /\ Len(C18_Pasted) = 4
  /\ twitterCalls = 5
  /\ Len(errors) = 1
  /\ errors[1][1] = "https://x.com/u/status/1"
  /\ Len(contents) = 3
  /\ contents[1][2] = "https://x.com/u/status/2"
  /\ contents[2][2] = "https://x.com/u/status/3"
  /\ contents[3][1] = "--- Errors fetching some URLs ---"

C20_Original ==
  pc = "done" =>
    /\ response.headers = "cors"
    /\ req.method = "OPTIONS" =>
         /\ response.status = 200
         /\ response.kind = "empty"
         /\ llmCalls = 0
         /\ twitterCalls = 0
         /\ analyticsData = EmptyAnalytics
         /\ sheetRows = << >>

\* every job is a run of initializeSheets through the init-sheets handler
OnlyInitRuns ==
  \A p \in DOMAIN procs : procs[p].kind = "init-sheets" /\ procs[p].status # 500

\* C21 as stated: initializeSheets is idempotent: runs of it, one after the
\* other or interleaved, leave every sheet as one run leaves it, and never
\* write over a first row that is already non-empty.
C21_Original ==
  (pc = "jobs" /\ OnlyInitRuns) =>
    /\ overwritten = {}
    /\ (\A p \in DOMAIN procs : procs[p].pc = "done" /\ procs[p].failed = 0) =>
         book = Book(<<HeaderRow>>)

\* the call runs in one of the Netlify functions
NetlifyRace == pc = "race" /\ variant \in {"summarize", "crypto"}

\* C22: in the Netlify functions a POST whose timer won the race is not
\* aborted, and what it settles with later is never used: the response
\* makeApiCallWithRetry returns is the settlement of the POST of the attempt
\* in progress, which won its race.
C22_LateResponseDiscarded ==
  NetlifyRace =>
    /\ \A i \in DOMAIN race.calls : ~race.calls[i].aborted
    /\ race.result.kind = "return" =>
         /\ race.result.from = race.attempt
         /\ race.calls[race.attempt].won = "call"
         /\ race.result.value = race.calls[race.attempt].outcome
         /\ \A i \in DOMAIN race.calls :
              race.calls[i].won = "timer" => race.result.from # i

\* the first attempt timed out, its POST answered 200 afterwards, and the
\* function returned the response of the second attempt
C22_Witness ==
  /\ NetlifyRace
  /\ race.result.kind = "return"
  /\ race.result.from = 2
  /\ race.calls[1].won = "timer"
  /\ race.calls[1].settled
  /\ race.calls[1].outcome = <<HttpOutcome(200, << >>, TRUE, "good")>>

\* C27: called with retries >= 1, makeApiCallWithRetry of the Netlify
\* functions ends by returning a response whose ok is true or by throwing:
\* it returns no response that is not ok, and it never returns undefined.
C27_OkOrThrow ==
  (NetlifyRace /\ race.retries >= 1) =>
    /\ race.result.kind # "undefined"
    /\ race.at = "returned" =>
         /\ race.result.kind = "return"
         /\ Len(race.result.value) = 1
         /\ Ok(race.result.value[1])
    /\ race.at = "thrown" => race.result.kind = "throw"
    /\ race.attempt <= race.retries

\* the last of three attempts returned a response after a 500 and a timeout
C27_Witness ==
  /\ NetlifyRace
  /\ race.retries = 3
  /\ race.attempt = 3
  /\ race.at = "returned"
  /\ race.calls[1].outcome = <<HttpOutcome(500, <<"secret">>, TRUE, "none")>>
  /\ race.calls[1].won = "call"
  /\ race.calls[2].won = "timer"
  /\ Ok(race.result.value[1])

\* the timers of fetchTwitterContent, and the limit the timeouts are chosen
\* for
RootTimeoutMs == 3000
ConvTimeoutMs == 2000
CeilingMs == 10000

RECURSIVE SumOfDelays(_)
SumOfDelays(ds) == IF ds = << >> THEN 0 ELSE Head(ds) + SumOfDelays(Tail(ds))

RECURSIVE AttemptTimeouts(_, _)
\* the timers of the first n attempts of makeApiCallWithRetry
AttemptTimeouts(v, n) ==
  IF n = 0 THEN 0 ELSE TimeoutMs(v, n) + AttemptTimeouts(v, n - 1)

\* the timers of k calls to the social platform, at the least: a conversation
\* search follows a root fetch that succeeded, so no more than half of the
\* calls are searches
TwitterTimeouts(k) == (k \div 2) * ConvTimeoutMs + (k - (k \div 2)) * RootTimeoutMs

\* the timeouts and pauses of the calls the handler has made so far
TimeoutSum ==
  TwitterTimeouts(twitterCalls) + AttemptTimeouts(variant, Len(attemptLog))
    + SumOfDelays(delays)

\* C23 as stated: in the Netlify summarize handler the timeouts of the calls
\* made and the pauses between attempts add up to less than 10 seconds on
\* every path.
C23_Original ==
  (variant = "summarize" /\ pc \notin {"helper", "jobs", "race"}) =>
    TimeoutSum < CeilingMs

\* the loop has run on the sentences of arg
Rebuilt == pc = "helper" /\ fn = "rebuildSentences" /\ Len(out) = 1

SingleFetchFailed ==
  /\ variant \in {"summarize", "server"}
  /\ req.body = "json"
  /\ req.threadUrl = Str(<<StatusUrl(1)>>)
  /\ twitterCalls <= 1
  /\ pc \in {"llm", "parse", "logOk", "catch", "logFail", "done"}

\* rawText is a string with a character that is not white space
RawTextHasContent ==
  req.rawText.t = "string" /\ \E i \in 1..Len(req.rawText.s) : req.rawText.s[i] # Blank

\* C25: when threadUrl is a status URL and fetching it fails, a rawText with
\* non-whitespace content is summarized in its place and the failure of the
\* fetch is not answered as an error; without such a rawText the handler
\* answers 400 with the advice to paste the text, and makes no LLM call.
C25_FallbackOrPaste ==
  SingleFetchFailed =>
    IF RawTextHasContent
    THEN /\ threadText = req.rawText.s
         /\ isTwitterContent
         /\ pc = "done" => (llmCalls >= 1 /\ response.status # 400)
    ELSE /\ pc = "done"
         /\ response.status = 400
         /\ response.kind = "error"
         /\ Len(response.text) >= 1
         /\ response.text[Len(response.text)] \in
              {"Please copy and paste the tweet content directly into the text area instead.",
               "You can copy and paste the tweet content directly into the text area instead."}
         /\ llmCalls = 0

\* the root message was not found, rawText was summarized and answered 200
C25_Witness ==
  /\ SingleFetchFailed
  /\ variant = "summarize"
  /\ twitterCalls = 1
  /\ req.rawText = Str(<<"hello", "world">>)
  /\ pc = "done"
  /\ response.status = 200
  /\ llmCalls = 1

\* C29 as stated: every summary the Netlify summarize handler returns with
\* status 200 is non-empty, contains a letter and ends with '.', '!' or '?',
\* whatever the LLM's text and the tone.
C29_Original ==
  (pc = "helper" /\ fn = "finalSummary" /\ Len(out) = 1 /\ out[1].status = 200) =>
    /\ out[1].summary # << >>
    /\ \E i \in 1..Len(out[1].summary) :
         out[1].summary[i] \in {"The", "cat", "is", "and", "Cat", "Is", "And", "This",
                                 "Unable"}
    /\ out[1].summary[Len(out[1].summary)] \in {".", "!", "?"}

\* the calls of the kinds ks that have been made
CallsMade(ks) ==
  Cardinality({ p \in DOMAIN procs : procs[p].kind \in ks /\ procs[p].pc # "idle" })

\* C24: whatever the interleaving of concurrent calls of logSiteVisit,
\* logToneUsage and logSummarizationRequest of analytics.js, the in-memory
\* store loses no update: totalVisits is the number of visits recorded,
\* totalSummarizations the number of calls of logSummarizationRequest made,
\* the tone count the number of calls of logToneUsage made, and
\* successfulSummarizations is at most totalSummarizations.
C24_NoLostUpdate ==
  pc = "jobs" =>
    LET logs == analyticsData.summarizationLogs
        successful == Cardinality({ i \in 1..Len(logs) : logs[i].status = "Success" })
    IN  /\ analyticsData.dailyVisits = Len(analyticsData.siteVisits)
        /\ analyticsData.dailyVisits = CallsMade({"memLogSiteVisit"})
        /\ Len(logs) = CallsMade({"memLogSummarization", "memLogSummarizationFailed"})
        /\ successful = CallsMade({"memLogSummarization"})
        /\ successful <= Len(logs)
        /\ analyticsData.toneUsage[Str(<<"simple">>)] = CallsMade({"memLogToneUsage"})

\* two calls of logSiteVisit ran together, the second began while the first
\* was waiting for the spreadsheet, and both visits are counted
C24_Witness ==
  /\ pc = "jobs"
  /\ \A p \in DOMAIN procs : procs[p].kind = "memLogSiteVisit"
  /\ procs[1].pc = "done"
  /\ procs[2].pc = "mappend"
  /\ analyticsData.dailyVisits = 2
  /\ Len(analyticsData.siteVisits) = 2
  /\ Len(sheetRows) = 1

\* the calls of kind k have all completed without a rejected API call, and
\* there are two of them or more
AllCompleted(k) ==
  /\ pc = "jobs"
  /\ Len(procs) >= 2
  /\ \A p \in DOMAIN procs :
       procs[p].kind = k /\ procs[p].pc = "done" /\ procs[p].failed = 0

\* the data rows of sheet s with key k
RowsFor(s, k) == { i \in 1..Len(book[s]) : book[s][i].key = k }

\* C28 as stated: after n calls logToneUsage(t) on one date have completed,
\* in whatever interleaving, ToneUsage holds exactly one row for the date and
\* the tone, with count n; likewise DailySummary after n calls of
\* logSiteVisit.
C28_Original ==
  /\ AllCompleted("logToneUsage") =>
       \E i \in 1..Len(book["ToneUsage"]) :
         /\ RowsFor("ToneUsage", "simple") = {i}
         /\ book["ToneUsage"][i].count = Len(procs)
  /\ AllCompleted("logSiteVisit") =>
       \E i \in 1..Len(book["DailySummary"]) :
         /\ RowsFor("DailySummary", "2024-01-01") = {i}
         /\ book["DailySummary"][i].count = Len(procs)

\* sheet s holds its header row
HasHeader(s) == book[s] # << >> /\ book[s][1] = HeaderRow

\* C30 as stated: the init-sheets handler answers 500 whenever initializing
\* fails (the client cannot be built, or the read or write of a sheet fails),
\* and answers 200 only when every sheet has its header row.
C30_Original ==
  pc = "jobs" =>
    \A p \in DOMAIN procs :
      (procs[p].kind = "init-sheets" /\ procs[p].pc = "done") =>
        /\ procs[p].status \in {200, 500}
        /\ procs[p].failed > 0 => procs[p].status = 500
        /\ procs[p].status = 200 =>
             \A i \in 1..Len(SheetNames) : HasHeader(SheetNames[i])

====
